---- MODULE Spec2Model ----
(***************************************************************************)
(* Book-notes server: registration, login, the bearer-token guard and the  *)
(* per-user notes routes of server/src/index.js and server/src/auth.js,    *)
(* over a users table and a notes table.                                   *)
(*                                                                         *)
(* Strings whose characters the code inspects (emails, path parameters)    *)
(* are sequences of character codes; strings of which only the length and  *)
(* equality matter (passwords, titles, bodies) are TLA+ strings.           *)
(***************************************************************************)
EXTENDS Integers, Sequences, FiniteSets, Bags, TLC

\* ------------------------------------------------------------------ bounds

\* Requests that may be in flight (awaiting their storage query) at once.
MaxInFlight == 2
\* Rows the notes id sequence may hand out.
MaxNotes == 2
\* Clock advances in a behaviour.
MaxTicks == 2
\* Tokens signed in a behaviour in which time passes.
MaxTokens == 2

\* -------------------------------------------------------- program constants

\* expiresIn: "7d", in seconds (jsonwebtoken converts the span with ms()).
ExpiresInSec == 604800
\* password: z.string().min(6) at registration.
MinRegisterPassword == 6
\* password: z.string().min(1) at login.
MinLoginPassword == 1
\* bookTitle / note: z.string().min(1).
MinNoteField == 1

\* ------------------------------------------------------------ input strings

\* "a@x.io", "A@x.io", "b@x.io" and the malformed "a.io", as character codes.
EmailLowerA == <<97, 64, 120, 46, 105, 111>>
EmailUpperA == <<65, 64, 120, 46, 105, 111>>
EmailLowerB == <<98, 64, 120, 46, 105, 111>>
EmailMalformed == <<97, 46, 105, 111>>

\* Passwords: only length and equality are inspected.
PasswordInputs == {"secret1", "abc", ""}

\* Note fields of a create request.
TitleInputs == {"Dune", ""}
NoteInputs == {"desert planet", ""}

IsUpper(c) == c \in 65..90
IsLetter(c) == c \in 65..90 \/ c \in 97..122
IsDigit(c) == c \in 48..57
IsAlnum(c) == IsLetter(c) \/ IsDigit(c)

\* String.prototype.toLowerCase on ASCII.
toLowerCase(s) == [i \in 1..Len(s) |-> IF IsUpper(s[i]) THEN s[i] + 32 ELSE s[i]]

\* String.prototype.split(sep) for a one-element separator: the fields between
\* the separators, empty fields kept; never an empty result.
RECURSIVE split(_, _)
split(s, sep) ==
    IF \A i \in 1..Len(s) : s[i] # sep
    THEN <<s>>
    ELSE LET p == CHOOSE i \in 1..Len(s) : s[i] = sep /\ \A j \in 1..(i - 1) : s[j] # sep
         IN  <<SubSeq(s, 1, p - 1)>> \o split(SubSeq(s, p + 1, Len(s)), sep)

\* z.string().email(): the zod v3 pattern
\* ^(?!\.)(?!.*\.\.)([A-Z0-9_'+\-\.]*)[A-Z0-9_+-]@([A-Z0-9][A-Z0-9\-]*\.)+[A-Z]{2,}$ (case-insensitive).
IsLocalChar(c) == IsAlnum(c) \/ c \in {95, 39, 43, 45, 46}
IsLocalLast(c) == IsAlnum(c) \/ c \in {95, 43, 45}
IsDomainLabel(l) ==
    /\ Len(l) >= 1
    /\ IsAlnum(l[1])
    /\ \A i \in 2..Len(l) : IsAlnum(l[i]) \/ l[i] = 45
IsTopLevel(l) == Len(l) >= 2 /\ \A i \in 1..Len(l) : IsLetter(l[i])
IsEmail(s) ==
    LET parts == split(s, 64)
    IN  /\ Len(parts) = 2
        /\ Len(s) >= 1 /\ s[1] # 46
        /\ \A i \in 1..(Len(s) - 1) : ~(s[i] = 46 /\ s[i + 1] = 46)
        /\ LET local == parts[1]
               labels == split(parts[2], 46)
           IN  /\ Len(local) >= 1
               /\ \A i \in 1..Len(local) : IsLocalChar(local[i])
               /\ IsLocalLast(local[Len(local)])
               /\ Len(labels) >= 2
               /\ \A i \in 1..(Len(labels) - 1) : IsDomainLabel(labels[i])
               /\ IsTopLevel(labels[Len(labels)])

\* ----------------------------------------------------- Number(req.params.id)

\* StrWhiteSpaceChar: the white space and line terminators Number() and
\* String.prototype.trim strip.
IsStrWhiteSpace(c) ==
    c \in {9, 10, 11, 12, 13, 32, 160, 5760, 8232, 8233, 8239, 8287, 12288, 65279}
        \/ c \in 8192..8202

\* String.prototype.trim on character codes.
trim(s) ==
    LET kept == {i \in 1..Len(s) : ~IsStrWhiteSpace(s[i])}
    IN  IF kept = {} THEN <<>>
        ELSE SubSeq(s, CHOOSE i \in kept : \A j \in kept : i <= j,
                       CHOOSE i \in kept : \A j \in kept : j <= i)

\* A Number value: NaN, an infinity, or sign and binary significand
\* (first bit 1, last bit 1, <<>> for zero) with the exponent of its first
\* bit: bits[1] * 2^exp + bits[2] * 2^(exp - 1) + ...
NaN == [kind |-> "nan", neg |-> FALSE, bits |-> <<>>, exp |-> 0]
Infinity(neg) == [kind |-> "inf", neg |-> neg, bits |-> <<>>, exp |-> 0]
Zero(neg) == [kind |-> "num", neg |-> neg, bits |-> <<>>, exp |-> 0]

\* The binary64 format: 53 bits of significand, exponents -1022..1023, and
\* subnormal values down to 2^-1074.
SignificandBits == 53
MaxExponent == 1023
MinExponent == -1022

AllZero(d) == \A i \in 1..Len(d) : d[i] = 0
Zeros(n) == [i \in 1..n |-> 0]
StripLeadingZeros(d) ==
    IF AllZero(d) THEN <<>>
    ELSE SubSeq(d, CHOOSE i \in 1..Len(d) : d[i] # 0 /\ \A j \in 1..(i - 1) : d[j] = 0, Len(d))
StripTrailingZeros(d) ==
    IF AllZero(d) THEN <<>>
    ELSE SubSeq(d, 1, CHOOSE i \in 1..Len(d) : d[i] # 0 /\ \A j \in (i + 1)..Len(d) : d[j] = 0)

\* Half of a decimal numeral (digits, most significant first), rounded
\* down: each digit takes the remainder of the digit before it.
HalfOf(d) ==
    [i \in 1..Len(d) |-> (10 * (IF i = 1 THEN 0 ELSE d[i - 1] % 2) + d[i]) \div 2]

\* Twice a decimal numeral, one digit longer: each digit takes the carry of
\* the digit after it. Twice a decimal fraction is the first digit (the bit
\* before the point) and the rest (the fraction).
TwiceOf(d) ==
    [i \in 1..(Len(d) + 1) |->
        (2 * (IF i = 1 THEN 0 ELSE d[i - 1]) + (IF i <= Len(d) /\ d[i] >= 5 THEN 1 ELSE 0)) % 10]

\* k halvings of the decimal numeral st.d, each putting its remainder in
\* front of st.bits.
Decimals == Seq(0..9)
Binaries == Seq(0..1)
HalveOnce(st) ==
    IF AllZero(st.d) THEN [d |-> <<>>, bits |-> <<0>> \o st.bits]
    ELSE [d |-> StripLeadingZeros(HalfOf(st.d)), bits |-> <<st.d[Len(st.d)] % 2>> \o st.bits]
Halve[st \in [d : Decimals, bits : Binaries], k \in Nat] ==
    IF k = 0 THEN st
    ELSE IF k = 1 THEN HalveOnce(st)
    ELSE Halve[Halve[st, k \div 2], k - (k \div 2)]

\* The binary numeral of a decimal numeral, without leading zeros (a decimal
\* digit makes fewer than four bits).
BitsOf(d) == StripLeadingZeros(Halve[[d |-> StripLeadingZeros(d), bits |-> <<>>], 4 * Len(d)].bits)

\* k doublings of the decimal fraction st.f, each putting the bit that
\* passes the point after st.bits.
DoubleOnce(st) ==
    IF AllZero(st.f) THEN [f |-> <<>>, bits |-> st.bits \o <<0>>]
    ELSE LET t == TwiceOf(StripTrailingZeros(st.f))
         IN  [f |-> Tail(t), bits |-> st.bits \o <<t[1]>>]
Double[st \in [f : Decimals, bits : Binaries], k \in Nat] ==
    IF k = 0 THEN st
    ELSE IF k = 1 THEN DoubleOnce(st)
    ELSE Double[Double[st, k \div 2], k - (k \div 2)]

\* The first k bits of the decimal fraction f, and the fraction that is left.
FractionBits(f, k) ==
    IF AllZero(f) THEN [bits |-> Zeros(k), rest |-> <<>>]
    ELSE LET st == Double[[f |-> StripTrailingZeros(f), bits |-> <<>>], k]
         IN  [bits |-> st.bits, rest |-> st.f]

\* A binary numeral with a zero bit, plus one.
PlusOne(b) ==
    LET j == CHOOSE i \in 1..Len(b) : b[i] = 0 /\ \A k \in (i + 1)..Len(b) : b[k] = 1
    IN  [i \in 1..Len(b) |-> IF i < j THEN b[i] ELSE IF i = j THEN 1 ELSE 0]

\* Round to nearest, ties to even: the significand sig whose first bit has
\* exponent exp, followed by the bit guard and, when sticky, by further one
\* bits. (Below the subnormal range sig is empty.)
RoundToEven(neg, sig, exp, guard, sticky) ==
    LET up == guard = 1 /\ (sticky \/ (sig # <<>> /\ sig[Len(sig)] = 1))
        sum == IF up THEN PlusOne(<<0>> \o sig) ELSE <<0>> \o sig
        e == IF sum[1] = 1 THEN exp + 1 ELSE exp
        bits == StripTrailingZeros(StripLeadingZeros(sum))
    IN  IF bits = <<>> THEN Zero(neg)
        ELSE IF e > MaxExponent THEN Infinity(neg)
        ELSE [kind |-> "num", neg |-> neg, bits |-> bits, exp |-> e]

\* The Number value nearest to the integer with binary numeral ib plus the
\* decimal fraction f, a fraction that is at least 10^-lead when ib is zero
\* (a factor of ten is fewer than 3.33 factors of two). An integer of at
\* most 53 bits is a Number as it stands.
ToNumber(neg, ib, f, lead) ==
    IF ib # <<>> /\ Len(ib) <= SignificandBits /\ AllZero(f)
    THEN [kind |-> "num", neg |-> neg, bits |-> StripTrailingZeros(ib), exp |-> Len(ib) - 1]
    ELSE IF ib # <<>>
    THEN LET exp == Len(ib) - 1
             fb == FractionBits(f, SignificandBits + 1 - Len(ib))
             all == IF Len(ib) > SignificandBits THEN ib ELSE ib \o fb.bits
         IN  IF exp > MaxExponent THEN Infinity(neg)
             ELSE RoundToEven(neg, SubSeq(all, 1, SignificandBits), exp,
                              all[SignificandBits + 1],
                              \/ \E i \in (SignificandBits + 2)..Len(all) : all[i] = 1
                              \/ IF Len(ib) > SignificandBits THEN ~AllZero(f)
                                 ELSE ~AllZero(fb.rest))
    ELSE IF AllZero(f) THEN Zero(neg)
    ELSE LET fb == FractionBits(f, (lead * 333) \div 100 + SignificandBits + 3)
             ones == {i \in 1..Len(fb.bits) : fb.bits[i] = 1}
             first == CHOOSE i \in ones : \A j \in ones : i <= j
             exp == -first
             p == IF exp >= MinExponent THEN SignificandBits
                  ELSE SignificandBits + exp - MinExponent
         IN  IF p < 0 THEN Zero(neg)
             ELSE RoundToEven(neg, SubSeq(fb.bits, first, first + p - 1), exp,
                              fb.bits[first + p],
                              \/ \E i \in (first + p + 1)..Len(fb.bits) : fb.bits[i] = 1
                              \/ ~AllZero(fb.rest))

\* The value of the decimal digits d times ten to the power e. A numeral
\* with more than 309 integer digits is beyond the largest Number, one below
\* 10^-330 is nearer to zero than to the least Number.
DecimalToNumber(neg, d, e) ==
    LET s == StripLeadingZeros(d)
        n == Len(s) + e
    IN  IF s = <<>> THEN Zero(neg)
        ELSE IF n > 309 THEN Infinity(neg)
        ELSE IF n < -330 THEN Zero(neg)
        ELSE IF n <= 0 THEN ToNumber(neg, <<>>, Zeros(-n) \o s, 1 - n)
        ELSE IF n >= Len(s) THEN ToNumber(neg, BitsOf(s \o Zeros(n - Len(s))), <<>>, 0)
        ELSE ToNumber(neg, BitsOf(SubSeq(s, 1, n)), SubSeq(s, n + 1, Len(s)), 0)

\* The value of a numeral of decimal digits.
RECURSIVE DigitsValue(_)
DigitsValue(s) ==
    IF Len(s) = 0 THEN 0
    ELSE 10 * DigitsValue(SubSeq(s, 1, Len(s) - 1)) + (s[Len(s)] - 48)

\* The exponent of a numeral: the value of its digits, leading zeros apart.
\* An exponent of ten digits or more counts as 10^9: the engine holds no
\* string of 2^30 characters, so that no significand has the digits to make
\* up for it, and the result is the infinity or the zero either way.
ExponentValue(s) ==
    LET t == StripLeadingZeros([i \in 1..Len(s) |-> s[i] - 48])
    IN  IF Len(t) > 9 THEN 10 ^ 9 ELSE DigitsValue([i \in 1..Len(t) |-> t[i] + 48])

AllDigits(s) == \A i \in 1..Len(s) : IsDigit(s[i])

\* The digits of a numeral in base 2, 8 or 16 (-1: no digit of the base).
DigitIn(c, base) ==
    LET v == IF c \in 48..57 THEN c - 48
             ELSE IF c \in 97..102 THEN c - 87
             ELSE IF c \in 65..70 THEN c - 55
             ELSE -1
    IN  IF v < base THEN v ELSE -1
BitsOfDigit(v, width) == [i \in 1..width |-> (v \div (2 ^ (width - i))) % 2]
BitsIn(s, base, width) ==
    [i \in 1..(width * Len(s)) |->
        BitsOfDigit(DigitIn(s[(i - 1) \div width + 1], base), width)[((i - 1) % width) + 1]]

\* StrUnsignedDecimalLiteral: digits, an optional fraction, an optional
\* exponent part; "Infinity".
UnsignedDecimal(neg, s) ==
    LET es == {i \in 1..Len(s) : s[i] \in {101, 69}}
        at == IF es = {} THEN Len(s) + 1 ELSE CHOOSE i \in es : \A j \in es : i <= j
        mant == SubSeq(s, 1, at - 1)
        ex == SubSeq(s, at + 1, Len(s))
        signed == Len(ex) >= 1 /\ ex[1] \in {43, 45}
        exDigits == IF signed THEN Tail(ex) ELSE ex
        parts == split(mant, 46)
        whole == parts[1]
        frac == IF Len(parts) = 2 THEN parts[2] ELSE <<>>
        power == IF es = {} THEN 0
                 ELSE IF signed /\ ex[1] = 45 THEN -ExponentValue(exDigits)
                 ELSE ExponentValue(exDigits)
    IN  IF s = <<73, 110, 102, 105, 110, 105, 116, 121>> THEN Infinity(neg)
        ELSE IF /\ Len(parts) <= 2
                /\ AllDigits(whole) /\ AllDigits(frac)
                /\ Len(whole) + Len(frac) >= 1
                /\ es # {} => Len(exDigits) >= 1 /\ AllDigits(exDigits)
        THEN DecimalToNumber(neg, [i \in 1..(Len(whole) + Len(frac)) |-> (whole \o frac)[i] - 48],
                             power - Len(frac))
        ELSE NaN

\* StringToNumber: white space is trimmed; the empty string is 0; a
\* numeral with prefix 0x, 0o or 0b takes no sign; anything else that is no
\* signed decimal literal is NaN.
StringToNumber(s) ==
    LET t == trim(s)
        base == IF Len(t) >= 2 /\ t[1] = 48
                THEN CASE t[2] \in {120, 88} -> 16
                       [] t[2] \in {111, 79} -> 8
                       [] t[2] \in {98, 66} -> 2
                       [] OTHER -> 10
                ELSE 10
        width == CASE base = 16 -> 4 [] base = 8 -> 3 [] OTHER -> 1
        rest == SubSeq(t, 3, Len(t))
    IN  IF t = <<>> THEN Zero(FALSE)
        ELSE IF base # 10
        THEN IF rest # <<>> /\ \A i \in 1..Len(rest) : DigitIn(rest[i], base) >= 0
             THEN ToNumber(FALSE, StripLeadingZeros(BitsIn(rest, base, width)), <<>>, 0)
             ELSE NaN
        ELSE IF t[1] \in {43, 45} THEN UnsignedDecimal(t[1] = 45, Tail(t))
        ELSE UnsignedDecimal(FALSE, t)

\* Number.isInteger
isInteger(d) == d.kind = "num" /\ (d.bits = <<>> \/ d.exp - Len(d.bits) + 1 >= 0)

\* The integer a binary numeral denotes.
BitsValue[b \in Binaries] ==
    IF b = <<>> THEN 0 ELSE 2 * BitsValue[SubSeq(b, 1, Len(b) - 1)] + b[Len(b)]

\* What the handler and the store ask of the number d. finite:
\* Number.isFinite; integer: Number.isInteger; int32: an integer of magnitude
\* below 2^31, which is val (0 otherwise).
NumberValue(d) ==
    [finite |-> d.kind = "num", integer |-> isInteger(d),
     int32 |-> isInteger(d) /\ (d.bits = <<>> \/ d.exp <= 30),
     val |-> IF isInteger(d) /\ d.bits # <<>> /\ d.exp <= 30
             THEN (IF d.neg THEN -1 ELSE 1) * BitsValue[d.bits] * 2 ^ (d.exp - Len(d.bits) + 1)
             ELSE 0,
     double |-> d]

\* Number(req.params.id)
Number(s) == NumberValue(StringToNumber(s))

\* ---------------------------------------------------------------- variables

VARIABLES
    secret,      \* JWT_SECRET as read from the environment ("" when unset)
    listening,   \* app.listen was reached
    users,       \* users table: rows [id, email, password_hash]
    notes,       \* notes table: rows [id, user_id, book_title, author, note, created_at]
    userSeq,     \* last value of the users id sequence
    noteSeq,     \* last value of the notes id sequence
    now,         \* Date.now(), milliseconds
    ticks,       \* clock advances so far
    reqs,        \* bag of requests whose handler awaits its storage query
    last,        \* the handler run in the latest step: its request, the response it
                 \* sent (if any) and what the auth gate did; none after a clock step
    issued,      \* history: tokens signed so far, with the time of signing
    madeWith,    \* history: note id -> id claim of the token that created it
    registered,  \* history: accepted registrations [id, email, password]
    okDeletes,   \* history: note id -> number of {ok: true} DELETE responses
    stored,      \* the client's localStorage token: <<>> (none) or <<jwt>>
    cleared,     \* history: the client has removed a token it had stored
    ui,          \* the state of the App component (its useState cells)
    deps,        \* the dependencies of App's effects when they last ran, and
                 \* whether setUser was given an object since
    calls        \* the client's fetches that have not settled (a bag)

vars == <<secret, listening, users, notes, userSeq, noteSeq, now, ticks, reqs,
          last, issued, madeWith, registered, okDeletes, stored, cleared, ui, deps, calls>>

\* ------------------------------------------------------------ token service

\* HMAC over the payload: equal exactly for equal key and payload.
HS256(payload, key) == [key |-> key, payload |-> payload]

\* Math.floor(Date.now() / 1000)
ClockTimestamp(ms) == ms \div 1000

\* jwt.sign({id, email}, secret, {expiresIn: "7d"}) at time ms.
jwtSign(claims, key, ms) ==
    LET payload == [id |-> claims.id, email |-> claims.email,
                    iat |-> ClockTimestamp(ms),
                    exp |-> ClockTimestamp(ms) + ExpiresInSec]
    IN  [payload |-> payload, sig |-> HS256(payload, key)]

signToken(user, key, ms) == jwtSign([id |-> user.id, email |-> user.email], key, ms)

\* A header value is a sequence of lexemes: the space character, the tab
\* character, a word without blanks, or a compact JWT.
NoJwt == [payload |-> [id |-> 0, email |-> <<>>, iat |-> 0, exp |-> 0],
          sig |-> [key |-> "", payload |-> [id |-> 0, email |-> <<>>, iat |-> 0, exp |-> 0]]]
SP == [t |-> "sp", w |-> " ", jwt |-> NoJwt]
TAB == [t |-> "tab", w |-> "\t", jwt |-> NoJwt]
Word(w) == [t |-> "word", w |-> w, jwt |-> NoJwt]
Jwt(j) == [t |-> "jwt", w |-> "", jwt |-> j]

\* A variant that still accepts a token in the second of its expiry.
ExpiredAfter(j, ms) == ClockTimestamp(ms) > j.payload.exp

\* jwt.verify(token, secret) at time ms: [ok, payload]; not ok is a throw.
SignatureValid(j, key) == j.sig = HS256(j.payload, key)
Expired(j, ms) == ClockTimestamp(ms) >= j.payload.exp
jwtVerify(token, key, ms) ==
    IF /\ Len(token) = 1
       /\ token[1].t = "jwt"
       /\ SignatureValid(token[1].jwt, key)
       /\ ~Expired(token[1].jwt, ms)
    THEN [ok |-> TRUE, payload |-> token[1].jwt.payload]
    ELSE [ok |-> FALSE, payload |-> NoJwt.payload]

\* ---------------------------------------------------------------- responses

NoUser == [id |-> 0, email |-> <<>>]

NoResponse ==
    [status |-> 0, kind |-> "none", error |-> "", fields |-> {}, rows |-> <<>>,
     token |-> <<>>, user |-> <<>>]

\* res.status(code).json({ error: message })
ErrorResponse(code, message) ==
    [NoResponse EXCEPT !.status = code, !.kind = "error", !.error = message]
\* res.status(400).json({ error: parsed.error.flatten() })
ValidationResponse(badFields) ==
    [NoResponse EXCEPT !.status = 400, !.kind = "validation", !.fields = badFields]
\* res.json({ token, user })
AuthResponse(token, user) ==
    [NoResponse EXCEPT !.status = 200, !.kind = "auth", !.token = <<token>>, !.user = <<user>>]
\* res.json({ user: req.user })
UserResponse(user) ==
    [NoResponse EXCEPT !.status = 200, !.kind = "user", !.user = <<user>>]
\* res.json(result.rows)
RowsResponse(rows) ==
    [NoResponse EXCEPT !.status = 200, !.kind = "rows", !.rows = rows]
\* res.json(row)
RowResponse(row) ==
    [NoResponse EXCEPT !.status = 200, !.kind = "row", !.rows = <<row>>]
\* res.json({ ok: true })
OkResponse == [NoResponse EXCEPT !.status = 200, !.kind = "ok"]

\* --------------------------------------------------------------- auth gate

\* A variant that compares the scheme ignoring letter case.
SchemeIs(type, scheme) ==
    Len(type) = 1 /\ type[1].t = "word" /\ type[1].w \in {scheme, "bearer", "BEARER"}
requireAuthAnyCase(header, key, ms) ==
    LET parts == split(header, SP)
        type == parts[1]
        hasToken == Len(parts) >= 2 /\ Len(parts[2]) >= 1
    IN  IF ~SchemeIs(type, "Bearer") \/ ~hasToken
        THEN [next |-> FALSE, verified |-> FALSE, user |-> NoUser,
              res |-> ErrorResponse(401, "Missing auth token")]
        ELSE LET v == jwtVerify(parts[2], key, ms)
             IN  IF v.ok
                 THEN [next |-> TRUE, verified |-> TRUE,
                       user |-> [id |-> v.payload.id, email |-> v.payload.email],
                       res |-> NoResponse]
                 ELSE [next |-> FALSE, verified |-> TRUE, user |-> NoUser,
                       res |-> ErrorResponse(401, "Invalid or expired token")]

\* A variant whose response tells an expired token from a tampered one.
requireAuthTellingExpiry(header, key, ms) ==
    LET parts == split(header, SP)
        type == parts[1]
        hasToken == Len(parts) >= 2 /\ Len(parts[2]) >= 1
    IN  IF type # <<Word("Bearer")>> \/ ~hasToken
        THEN [next |-> FALSE, verified |-> FALSE, user |-> NoUser,
              res |-> ErrorResponse(401, "Missing auth token")]
        ELSE LET v == jwtVerify(parts[2], key, ms)
                 tok == parts[2][1]
             IN  IF v.ok
                 THEN [next |-> TRUE, verified |-> TRUE,
                       user |-> [id |-> v.payload.id, email |-> v.payload.email],
                       res |-> NoResponse]
                 ELSE IF Len(parts[2]) = 1 /\ tok.t = "jwt" /\ SignatureValid(tok.jwt, key)
                 THEN [next |-> FALSE, verified |-> TRUE, user |-> NoUser,
                       res |-> ErrorResponse(401, "Token expired")]
                 ELSE [next |-> FALSE, verified |-> TRUE, user |-> NoUser,
                       res |-> ErrorResponse(401, "Invalid or expired token")]

\* A variant that revokes a token once a later one was signed for its user.
requireAuthLatestOnly(header, key, ms) ==
    LET parts == split(header, SP)
        type == parts[1]
        hasToken == Len(parts) >= 2 /\ Len(parts[2]) >= 1
    IN  IF type # <<Word("Bearer")>> \/ ~hasToken
        THEN [next |-> FALSE, verified |-> FALSE, user |-> NoUser,
              res |-> ErrorResponse(401, "Missing auth token")]
        ELSE LET v == jwtVerify(parts[2], key, ms)
                 later == {i \in issued : /\ i.jwt.payload.id = v.payload.id
                                          /\ i.jwt.payload.iat > v.payload.iat}
             IN  IF v.ok /\ later = {}
                 THEN [next |-> TRUE, verified |-> TRUE,
                       user |-> [id |-> v.payload.id, email |-> v.payload.email],
                       res |-> NoResponse]
                 ELSE [next |-> FALSE, verified |-> TRUE, user |-> NoUser,
                       res |-> ErrorResponse(401, "Invalid or expired token")]

\* requireAuth(req, res, next) at time ms. next: the handler is called with
\* req.user = user; verified: jwt.verify was called; otherwise res is sent.
requireAuth(header, key, ms) ==
    LET parts == split(header, SP)
        type == parts[1]
        hasToken == Len(parts) >= 2 /\ Len(parts[2]) >= 1
    IN  IF type # <<Word("Bearer")>> \/ ~hasToken
        THEN [next |-> FALSE, verified |-> FALSE, user |-> NoUser,
              res |-> ErrorResponse(401, "Missing auth token")]
        ELSE LET v == jwtVerify(parts[2], key, ms)
             IN  IF v.ok
                 THEN [next |-> TRUE, verified |-> TRUE,
                       user |-> [id |-> v.payload.id, email |-> v.payload.email],
                       res |-> NoResponse]
                 ELSE [next |-> FALSE, verified |-> TRUE, user |-> NoUser,
                       res |-> ErrorResponse(401, "Invalid or expired token")]

\* ------------------------------------------------------------------ storage

\* bcrypt.hash(password, 10) draws a salt and keeps it in the hash;
\* bcrypt.compare(password, hash) hashes the password with the salt of the
\* hash: it holds exactly for the password hashed.
Salts == {"salt1", "salt2"}
\* The salt drawn where no property reads the stored hash.
OneSalt == {"salt1"}
NoHash == [rounds |-> 0, salt |-> "", digest |-> ""]
bcryptHash(password, salt) == [rounds |-> 10, salt |-> salt, digest |-> password]
bcryptCompare(password, hash) == hash = bcryptHash(password, hash.salt)

\* Variants that pass the email on as submitted.
RegisterEmailAsGiven(email) == email
LoginEmailAsGiven(email) == email

\* The email as stored and as looked up: email.toLowerCase().
RegisterEmailParam(email) == toLowerCase(email)
LoginEmailParam(email) == toLowerCase(email)

\* The unique constraint on users.email (error code 23505 when violated).
UniqueViolation(table, email) == \E u \in table : u.email = email

\* SELECT id, email, password_hash FROM users WHERE email = $1
SelectUserByEmail(table, email) == {u \in table : u.email = email}

\* The column list of the notes queries:
\* id, book_title AS "bookTitle", author, note, created_at AS "createdAt".
NoteColumns(n) ==
    [id |-> n.id, bookTitle |-> n.book_title, author |-> n.author,
     note |-> n.note, createdAt |-> n.created_at]

\* A variant: ORDER BY id (ascending).
RECURSIVE OrderByIdAsc(_)
OrderByIdAsc(rows) ==
    IF rows = {} THEN <<>>
    ELSE LET low == CHOOSE n \in rows : \A m \in rows : n.id <= m.id
         IN  <<low>> \o OrderByIdAsc(rows \ {low})

\* ORDER BY id DESC
RECURSIVE OrderByIdDesc(_)
OrderByIdDesc(rows) ==
    IF rows = {} THEN <<>>
    ELSE LET top == CHOOSE n \in rows : \A m \in rows : m.id <= n.id
         IN  <<top>> \o OrderByIdDesc(rows \ {top})

\* Variants of the where-clauses (a filter dropped) and of the rowCount test.
ListWhereAnyOwner(table, userId) == table
GetWhereAnyOwner(table, id, userId) == {n \in table : n.id = id}
DeleteWhereAnyOwner(table, id, userId) == {n \in table : n.id = id}
DeleteWhereAnyId(table, id, userId) == {n \in table : n.user_id = userId}
DeleteResponseAlwaysOk(rowCount) == OkResponse

\* FROM notes WHERE user_id = $1
ListWhere(table, userId) == {n \in table : n.user_id = userId}
\* FROM notes WHERE id = $1 AND user_id = $2
GetWhere(table, id, userId) == {n \in table : n.id = id /\ n.user_id = userId}
\* DELETE FROM notes WHERE id = $1 AND user_id = $2
DeleteWhere(table, id, userId) == {n \in table : n.id = id /\ n.user_id = userId}

\* A variant that takes the owner from the request body when it names one.
InsertOwnerFromBody(r) == IF r.bodyUserId # 0 THEN r.bodyUserId ELSE r.user.id

\* The owner column of INSERT INTO notes: req.user.id.
InsertOwner(r) == r.user.id

\* result.rowCount === 0 decides between 404 and { ok: true }.
DeleteResponse(rowCount) ==
    IF rowCount = 0 THEN ErrorResponse(404, "Not found") ELSE OkResponse

\* Errors pool.query rejects with: their code and the engine's text.
NoError == [code |-> "", message |-> ""]
DuplicateKey ==
    [code |-> "23505", message |-> "duplicate key value violates unique constraint"]
InvalidInteger ==
    [code |-> "22P02", message |-> "invalid input syntax for type integer"]
OutOfRange ==
    [code |-> "22003", message |-> "value is out of range for type integer"]
ConnectionRefused == [code |-> "ECONNREFUSED", message |-> "connect ECONNREFUSED"]
EngineErrors == {DuplicateKey, InvalidInteger, OutOfRange, ConnectionRefused}

\* A variant that answers the error's own text.
CatchLeakingText(op, e) ==
    IF op = "register" /\ e.code = "23505"
    THEN ErrorResponse(409, "Email already registered")
    ELSE ErrorResponse(500, e.message)

\* The catch blocks: console.error(e) and the route's fixed response; the
\* register route answers 409 for code 23505.
Catch(op, e) ==
    IF op = "register" /\ e.code = "23505"
    THEN ErrorResponse(409, "Email already registered")
    ELSE ErrorResponse(500, CASE op = "register" -> "Failed to register"
                              [] op = "login" -> "Failed to login"
                              [] op = "list" -> "Failed to load notes"
                              [] op = "get" -> "Failed to load note"
                              [] op = "create" -> "Failed to save note"
                              [] op = "delete" -> "Failed to delete note")

\* The notes table and its id sequence as a query finds and leaves them.
Store == [notes |-> notes, noteSeq |-> noteSeq]

\* Number.isFinite lets through numbers the integer id column cannot hold.
\* What the engine does with one is not decided by the handler: it rejects
\* the parameter (e: the error), or compares it and finds no row (NoError).
IdVerdicts == {NoError, InvalidInteger, OutOfRange}
IdRejected(r, e) == IF r.id.int32 THEN NoError ELSE e

\* The query of GET /api/notes on store db: the store it leaves, the error it
\* rejects with, the response that follows its result.
ListQuery(r, db) ==
    LET rows == OrderByIdDesc(ListWhere(db.notes, r.user.id))
    IN  [notes |-> db.notes, noteSeq |-> db.noteSeq, thrown |-> NoError,
         res |-> RowsResponse([i \in DOMAIN rows |-> NoteColumns(rows[i])])]

\* The query of GET /api/notes/:id; rows.length === 0 is answered 404.
GetQuery(r, db, e) ==
    LET rows == IF r.id.int32 THEN GetWhere(db.notes, r.id.val, r.user.id) ELSE {}
    IN  [notes |-> db.notes, noteSeq |-> db.noteSeq, thrown |-> IdRejected(r, e),
         res |-> IF rows = {} THEN ErrorResponse(404, "Not found")
                 ELSE RowResponse(NoteColumns(CHOOSE n \in rows : TRUE))]

\* INSERT INTO notes ... RETURNING at time ms: the next id of the sequence.
InsertedRow(r, db, ms) ==
    [id |-> db.noteSeq + 1, user_id |-> InsertOwner(r), book_title |-> r.bookTitle,
     author |-> r.author, note |-> r.note, created_at |-> ms]

\* The query of POST /api/notes.
CreateQuery(r, db, ms) ==
    [notes |-> db.notes \cup {InsertedRow(r, db, ms)}, noteSeq |-> db.noteSeq + 1,
     thrown |-> NoError, res |-> RowResponse(NoteColumns(InsertedRow(r, db, ms)))]

\* The query of DELETE /api/notes/:id.
DeleteQuery(r, db, e) ==
    LET gone == IF r.id.int32 THEN DeleteWhere(db.notes, r.id.val, r.user.id) ELSE {}
    IN  [notes |-> db.notes \ gone,
         noteSeq |-> db.noteSeq, thrown |-> IdRejected(r, e),
         res |-> DeleteResponse(Cardinality(gone))]

\* The query a pending notes request awaits (e: the engine's verdict on an
\* id its column cannot hold).
NoteQuery(r, db, ms, e) ==
    CASE r.op = "list" -> ListQuery(r, db)
      [] r.op = "get" -> GetQuery(r, db, e)
      [] r.op = "create" -> CreateQuery(r, db, ms)
      [] r.op = "delete" -> DeleteQuery(r, db, e)

\* What the handler answers once its query q has settled.
Answer(r, q) == IF q.thrown = NoError THEN q.res ELSE Catch(r.op, q.thrown)

\* ----------------------------------------------------------------- requests

NoNumber == [finite |-> FALSE, integer |-> FALSE, int32 |-> FALSE, val |-> 0, double |-> NaN]

\* A request as its handler holds it: req.user as bound by requireAuth, the
\* parsed body and path parameter. bodyUserId is req.body.user_id, a key the
\* schemas do not name (0: absent). sub is history: the id claim of the token
\* the request carried.
\* hash: the result of bcrypt.hash once the register handler has it; row:
\* result.rows[0] once the login handler has it.
NoRow == [id |-> 0, email |-> <<>>, password_hash |-> NoHash]
NoRequest ==
    [op |-> "none", user |-> NoUser, sub |-> 0, email |-> <<>>, password |-> "",
     id |-> NoNumber, bookTitle |-> "", author |-> "", note |-> "", bodyUserId |-> 0,
     hash |-> NoHash, row |-> NoRow]

InFlight == BagCardinality(reqs)
Pending == BagToSet(reqs)
Resume(r) == reqs' = reqs (-) SetToBag({r})
\* The handler of r goes on to its next await, holding r as s.
Proceed(r, s) == reqs' = (reqs (-) SetToBag({r})) (+) SetToBag({s})
\* The handler of r awaits bcrypt, not a query.
AwaitsBcrypt(r) ==
    \/ r.op = "register" /\ r.hash = NoHash
    \/ r.op = "login" /\ r.row # NoRow

\* A handler activation: from the request's arrival to the first await
\* ("receive"), from one await to the next ("proceed"), or from the last
\* await to the response ("resume"). gate:
\* the Authorization header requireAuth was given, whether jwt.verify was
\* called, whether next() was called.
\* thrown: the error the handler's catch block caught (NoError: none).
NoGate == [header |-> <<>>, verified |-> FALSE, next |-> FALSE]
Activation(phase, r, res, gate) ==
    [phase |-> phase, req |-> r, res |-> res, header |-> gate.header,
     verified |-> gate.verified, next |-> gate.next, thrown |-> NoError]
\* No handler ran in the latest step.
NoActivation == Activation("none", NoRequest, NoResponse, NoGate)
\* An unprotected handler answers at once.
Respond(r, res) == last' = Activation("receive", r, res, NoGate)
\* An unprotected handler sends its query and awaits the result.
Await(r) ==
    /\ reqs' = reqs (+) SetToBag({r})
    /\ last' = Activation("receive", r, NoResponse, NoGate)
\* A handler resumes with its query's result and answers.
Reply(r, res) == last' = Activation("resume", r, res, NoGate)
\* A handler goes from one await to the next, now holding r.
Proceeds(r) == last' = Activation("proceed", r, NoResponse, NoGate)
\* The awaited query rejects with e: the handler resumes in its catch block.
Caught(r, e) ==
    last' = [Activation("resume", r, Catch(r.op, e), NoGate) EXCEPT !.thrown = e]
\* A handler resumes with its settled query q: the result or the catch block.
Settled(r, q) == IF q.thrown = NoError THEN Reply(r, Answer(r, q)) ELSE Caught(r, q.thrown)

\* The id claim of the token a header carries in second place (0: none).
SubOf(header) ==
    LET parts == split(header, SP)
    IN  IF Len(parts) >= 2 /\ Len(parts[2]) >= 1 /\ parts[2][1].t = "jwt"
        THEN parts[2][1].jwt.payload.id
        ELSE 0

\* ----------------------------------------------------- POST /api/auth/register

RegisterBadFields(email, password) ==
    (IF IsEmail(email) THEN {} ELSE {"email"})
        \cup (IF Len(password) >= MinRegisterPassword THEN {} ELSE {"password"})

\* Up to the first await: validation, and the call of bcrypt.hash.
ReceiveRegister(email, password) ==
    LET r == [NoRequest EXCEPT !.op = "register", !.email = email, !.password = password]
        bad == RegisterBadFields(email, password)
    IN  /\ listening
        /\ IF bad # {}
           THEN /\ Respond(r, ValidationResponse(bad))
                /\ UNCHANGED reqs
           ELSE /\ InFlight < MaxInFlight
                /\ Await(r)
        /\ UNCHANGED <<secret, listening, stored, cleared, ui, deps, calls, users, notes, userSeq, noteSeq, now, ticks,
                       issued, madeWith, registered, okDeletes>>

\* bcrypt.hash settles with a hash of salt salt; the INSERT is sent.
HashedRegister(r, salt) ==
    LET s == [r EXCEPT !.hash = bcryptHash(r.password, salt)]
    IN  /\ r \in Pending
        /\ r.op = "register"
        /\ AwaitsBcrypt(r)
        /\ Proceed(r, s)
        /\ Proceeds(s)
        /\ UNCHANGED <<secret, listening, stored, cleared, ui, deps, calls, users, notes, userSeq, noteSeq, now, ticks,
                       issued, madeWith, registered, okDeletes>>

\* The INSERT runs and the handler resumes: signToken and the response, or the catch.
CompleteRegister(r) ==
    LET email == RegisterEmailParam(r.email)
        row == [id |-> userSeq + 1, email |-> email, password_hash |-> r.hash]
        user == [id |-> row.id, email |-> row.email]
        token == signToken(user, secret, now)
    IN  /\ r \in Pending
        /\ r.op = "register"
        /\ ~AwaitsBcrypt(r)
        /\ Resume(r)
        /\ IF UniqueViolation(users, email)
           THEN /\ Caught(r, DuplicateKey)
                /\ UNCHANGED <<users, userSeq, issued, registered>>
           ELSE /\ users' = users \cup {row}
                /\ userSeq' = userSeq + 1
                /\ issued' = issued \cup {[jwt |-> token, at |-> now]}
                /\ registered' = registered \cup
                       {[id |-> row.id, email |-> r.email, password |-> r.password]}
                /\ Reply(r, AuthResponse(token, user))
        /\ UNCHANGED <<secret, listening, stored, cleared, ui, deps, calls, notes, noteSeq, now, ticks, madeWith, okDeletes>>

\* -------------------------------------------------------- POST /api/auth/login

LoginBadFields(email, password) ==
    (IF IsEmail(email) THEN {} ELSE {"email"})
        \cup (IF Len(password) >= MinLoginPassword THEN {} ELSE {"password"})

ReceiveLogin(email, password) ==
    LET r == [NoRequest EXCEPT !.op = "login", !.email = email, !.password = password]
        bad == LoginBadFields(email, password)
    IN  /\ listening
        /\ IF bad # {}
           THEN /\ Respond(r, ValidationResponse(bad))
                /\ UNCHANGED reqs
           ELSE /\ InFlight < MaxInFlight
                /\ Await(r)
        /\ UNCHANGED <<secret, listening, stored, cleared, ui, deps, calls, users, notes, userSeq, noteSeq, now, ticks,
                       issued, madeWith, registered, okDeletes>>

\* A variant that tells a wrong password from an unknown email.
LoginOutcomeTelling(user, password, key, ms) ==
    IF ~bcryptCompare(password, user.password_hash)
    THEN ErrorResponse(401, "Invalid password")
    ELSE AuthResponse(signToken([id |-> user.id, email |-> user.email], key, ms),
                      [id |-> user.id, email |-> user.email])

\* if (!user) return res.status(401).json({ error: "Invalid email or password" })
NoSuchUser == ErrorResponse(401, "Invalid email or password")

\* The SELECT runs and the handler resumes: without a row it answers 401,
\* with a row it calls bcrypt.compare.
CompleteLogin(r) ==
    LET rows == SelectUserByEmail(users, LoginEmailParam(r.email))
        s == [r EXCEPT !.row = CHOOSE u \in rows : TRUE]
    IN  /\ r \in Pending
        /\ r.op = "login"
        /\ ~AwaitsBcrypt(r)
        /\ IF rows = {}
           THEN Resume(r) /\ Reply(r, NoSuchUser)
           ELSE Proceed(r, s) /\ Proceeds(s)
        /\ UNCHANGED <<secret, listening, stored, cleared, ui, deps, calls, users, notes, userSeq, noteSeq, now, ticks,
                       issued, madeWith, registered, okDeletes>>

\* After bcrypt.compare(password, user.password_hash) at time ms: 401, or
\* signToken and the response.
LoginOutcome(user, password, key, ms) ==
    IF ~bcryptCompare(password, user.password_hash)
    THEN ErrorResponse(401, "Invalid email or password")
    ELSE AuthResponse(signToken([id |-> user.id, email |-> user.email], key, ms),
                      [id |-> user.id, email |-> user.email])

\* bcrypt.compare settles and the handler resumes.
ComparedLogin(r) ==
    LET res == LoginOutcome(r.row, r.password, secret, now)
    IN  /\ r \in Pending
        /\ r.op = "login"
        /\ AwaitsBcrypt(r)
        /\ Resume(r)
        /\ Reply(r, res)
        /\ issued' = issued \cup {[jwt |-> res.token[i], at |-> now] : i \in DOMAIN res.token}
        /\ UNCHANGED <<secret, listening, stored, cleared, ui, deps, calls, users, notes, userSeq, noteSeq, now, ticks,
                       madeWith, registered, okDeletes>>

\* --------------------------------------------------------- protected routes

\* A variant in which the route is registered without requireAuth.
ProtectedWithoutGate(header, r, early) ==
    LET a == requireAuth(header, secret, now)
        bound == [r EXCEPT !.user = a.user, !.sub = SubOf(header)]
        gate == [header |-> header, verified |-> FALSE, next |-> FALSE]
    IN  /\ listening
        /\ IF early.status # 0
           THEN /\ last' = Activation("receive", bound, early, gate)
                /\ UNCHANGED reqs
           ELSE /\ InFlight < MaxInFlight
                /\ reqs' = reqs (+) SetToBag({bound})
                /\ last' = Activation("receive", bound, NoResponse, gate)
        /\ UNCHANGED <<secret, listening, stored, cleared, ui, deps, calls, users, notes, userSeq, noteSeq, now, ticks,
                       issued, madeWith, registered, okDeletes>>

\* A protected route up to its query being sent: requireAuth, then the
\* handler's synchronous part, which answers at once (early) or awaits.
Protected(header, r, early) ==
    LET a == requireAuth(header, secret, now)
        bound == [r EXCEPT !.user = a.user, !.sub = SubOf(header)]
        gate == [header |-> header, verified |-> a.verified, next |-> a.next]
    IN  /\ listening
        /\ IF ~a.next
           THEN /\ last' = Activation("receive", bound, a.res, gate)
                /\ UNCHANGED reqs
           ELSE IF early.status # 0
           THEN /\ last' = Activation("receive", bound, early, gate)
                /\ UNCHANGED reqs
           ELSE /\ InFlight < MaxInFlight
                /\ reqs' = reqs (+) SetToBag({bound})
                /\ last' = Activation("receive", bound, NoResponse, gate)
        /\ UNCHANGED <<secret, listening, stored, cleared, ui, deps, calls, users, notes, userSeq, noteSeq, now, ticks,
                       issued, madeWith, registered, okDeletes>>

\* ------------------------------------------------------------------ GET /api/me

ReceiveMe(header) ==
    Protected(header, [NoRequest EXCEPT !.op = "me"],
              UserResponse(requireAuth(header, secret, now).user))

\* --------------------------------------------------------------- GET /api/notes

ReceiveList(header) ==
    Protected(header, [NoRequest EXCEPT !.op = "list"], NoResponse)

CompleteList(r) ==
    /\ r \in Pending
    /\ r.op = "list"
    /\ Resume(r)
    /\ Settled(r, ListQuery(r, Store))
    /\ UNCHANGED <<secret, listening, stored, cleared, ui, deps, calls, users, notes, userSeq, noteSeq, now, ticks,
                   issued, madeWith, registered, okDeletes>>

\* ----------------------------------------------------------- GET /api/notes/:id

\* if (!Number.isFinite(id)) return res.status(400).json({ error: "Invalid id" })
InvalidId(id) == IF id.finite THEN NoResponse ELSE ErrorResponse(400, "Invalid id")

ReceiveGet(header, param) ==
    \E id \in {Number(param)} :
        Protected(header, [NoRequest EXCEPT !.op = "get", !.id = id], InvalidId(id))

\* The SELECT runs and the handler resumes: the row, 404, or the catch when
\* the engine rejected the id.
CompleteGet(r) ==
    \E e \in IdVerdicts :
    LET q == GetQuery(r, Store, e)
    IN  /\ r \in Pending
        /\ r.op = "get"
        /\ Resume(r)
        /\ Settled(r, q)
        /\ UNCHANGED <<secret, listening, stored, cleared, ui, deps, calls, users, notes, userSeq, noteSeq, now, ticks,
                       issued, madeWith, registered, okDeletes>>

\* -------------------------------------------------------------- POST /api/notes

NoteBadFields(bookTitle, note) ==
    (IF Len(bookTitle) >= MinNoteField THEN {} ELSE {"bookTitle"})
        \cup (IF Len(note) >= MinNoteField THEN {} ELSE {"note"})

\* z.string().optional().default("")
AuthorOrDefault(author) == IF author = <<>> THEN "" ELSE author[1]

\* Requests whose INSERT INTO notes is still to run.
PendingCreates == BagCardinality([r \in {q \in Pending : q.op = "create"} |-> reqs[r]])

ReceiveCreate(header, bookTitle, author, note, userId) ==
    /\ noteSeq + PendingCreates < MaxNotes
    /\ Protected(header,
                 [NoRequest EXCEPT !.op = "create", !.bookTitle = bookTitle,
                                   !.author = AuthorOrDefault(author), !.note = note,
                                   !.bodyUserId = userId],
                 IF NoteBadFields(bookTitle, note) # {}
                 THEN ValidationResponse(NoteBadFields(bookTitle, note))
                 ELSE NoResponse)

CompleteCreate(r) ==
    LET q == CreateQuery(r, Store, now)
        row == InsertedRow(r, Store, now)
    IN  /\ r \in Pending
        /\ r.op = "create"
        /\ Resume(r)
        /\ notes' = q.notes
        /\ noteSeq' = q.noteSeq
        /\ madeWith' = [i \in DOMAIN madeWith \cup {row.id} |->
                           IF i = row.id THEN r.sub ELSE madeWith[i]]
        /\ okDeletes' = [i \in DOMAIN okDeletes \cup {row.id} |->
                           IF i = row.id THEN 0 ELSE okDeletes[i]]
        /\ Settled(r, q)
        /\ UNCHANGED <<secret, listening, stored, cleared, ui, deps, calls, users, userSeq, now, ticks, issued, registered>>

\* -------------------------------------------------------- DELETE /api/notes/:id

ReceiveDelete(header, param) ==
    \E id \in {Number(param)} :
        Protected(header, [NoRequest EXCEPT !.op = "delete", !.id = id], InvalidId(id))

CompleteDelete(r) ==
    \E e \in IdVerdicts :
    LET q == DeleteQuery(r, Store, e)
    IN  /\ r \in Pending
        /\ r.op = "delete"
        /\ Resume(r)
        /\ notes' = q.notes
        /\ okDeletes' = [i \in DOMAIN okDeletes |->
                            IF i = r.id.val /\ Answer(r, q) = OkResponse
                            THEN okDeletes[i] + 1 ELSE okDeletes[i]]
        /\ Settled(r, q)
        /\ UNCHANGED <<secret, listening, stored, cleared, ui, deps, calls, users, userSeq, noteSeq, now, ticks,
                       issued, madeWith, registered>>

\* ------------------------------------------------------------ failing queries

\* The awaited pool.query of a pending request rejects (the connection is
\* lost): nothing is stored and the handler's catch block answers.
QueryFails(r, e) ==
    /\ r \in Pending
    /\ ~AwaitsBcrypt(r)
    /\ Resume(r)
    /\ Caught(r, e)
    /\ UNCHANGED <<secret, listening, stored, cleared, ui, deps, calls, users, notes, userSeq, noteSeq, now, ticks,
                   issued, madeWith, registered, okDeletes>>

\* ---------------------------------------------------------------------- clock

\* The behaviours span two validity periods of a token, in milliseconds.
Horizon == 2 * ExpiresInSec * 1000

Tick(d) ==
    /\ ticks < MaxTicks
    /\ now + d <= Horizon
    /\ now' = now + d
    /\ ticks' = ticks + 1
    /\ last' = NoActivation
    /\ UNCHANGED <<secret, listening, stored, cleared, ui, deps, calls, users, notes, userSeq, noteSeq, reqs,
                   issued, madeWith, registered, okDeletes>>

\* -------------------------------------------------------------- specification

\* The state of App when it is mounted: the initial values of its useState
\* cells (null: <<>> or 0), with token = getToken().
AppState(token) ==
    [token |-> token, user |-> <<>>, authStatus |-> "", notes |-> <<>>,
     selectedId |-> 0, selected |-> <<>>, bookTitle |-> "", author |-> "",
     note |-> "", status |-> "", aiNote |-> "", aiLoading |-> FALSE,
     aiError |-> "", saveChoice |-> "original"]

\* The dependencies of App's effects in state u: [token], [user] and
\* [selectedId, user]. userSet: setUser was given an object (a new identity).
Deps(u) == [token |-> u.token, user |-> u.user, selectedId |-> u.selectedId,
            userSet |-> FALSE]

\* A variant that starts whatever the environment holds.
StartsWithoutSecret(key) == TRUE

\* Start-up reaches app.listen: index.js imports auth.js first, which throws
\* when JWT_SECRET is unset or empty.
Starts(key) == key # ""

\* The process after start-up, with JWT_SECRET unset ("") or set.
Init ==
    /\ secret \in {"", "k"}
    /\ listening = Starts(secret)
    /\ users = {}
    /\ notes = {}
    /\ userSeq = 0
    /\ noteSeq = 0
    /\ now = 500
    /\ ticks = 0
    /\ reqs = EmptyBag
    /\ last = NoActivation
    /\ issued = {}
    /\ madeWith = <<>>
    /\ registered = {}
    /\ okDeletes = <<>>
    /\ stored = <<>>
    /\ cleared = FALSE
    /\ ui = AppState(stored)
    /\ deps = Deps(ui)
    /\ calls = EmptyBag

\* "Bearer <token>" as the client sends it.
Bearer(j) == <<Word("Bearer"), SP, Jwt(j)>>
IssuedTokens == {i.jwt : i \in issued}

\* Clients that send well-formed requests with a token received earlier, any
\* number of them at once.
ClientHeaders == {Bearer(j) : j \in IssuedTokens}
ClientEmails == {EmailLowerA, EmailUpperA, EmailLowerB}
ClientParams == {<<48 + i>> : i \in 1..MaxNotes}

\* The emails registrations arrive with: a@x.io registers first.
RegisterNext == IF users = {} THEN {EmailLowerA} ELSE {EmailLowerA, EmailLowerB}

\* No registration or login is under way, and another request may be taken.
SignedUp ==
    /\ InFlight < MaxInFlight
    /\ \A r \in Pending : r.op \notin {"register", "login"}

\* Two users and their notes: the users register and log in one request at a
\* time, and then work on their notes with requests in flight together.
Next ==
    \/ reqs = EmptyBag /\ \E e \in RegisterNext : ReceiveRegister(e, "secret1")
    \/ reqs = EmptyBag /\ ReceiveLogin(EmailUpperA, "secret1")
    \/ SignedUp /\ \E h \in ClientHeaders : ReceiveList(h)
    \/ SignedUp /\ \E h \in ClientHeaders, i \in ClientParams : ReceiveGet(h, i)
    \/ SignedUp /\ \E h \in ClientHeaders :
                       ReceiveCreate(h, "Dune", <<"Herbert">>, "desert planet", 0)
    \/ SignedUp /\ \E h \in ClientHeaders, i \in ClientParams : ReceiveDelete(h, i)
    \/ \E r \in Pending, s \in OneSalt : HashedRegister(r, s)
    \/ \E r \in Pending : CompleteRegister(r)
    \/ \E r \in Pending : CompleteLogin(r)
    \/ \E r \in Pending : ComparedLogin(r)
    \/ \E r \in Pending : CompleteList(r)
    \/ \E r \in Pending : CompleteGet(r)
    \/ \E r \in Pending : CompleteCreate(r)
    \/ \E r \in Pending : CompleteDelete(r)

Spec == Init /\ [][Next]_vars

\* Registrations and logins with emails in either letter case and right and
\* wrong passwords.
NextUsers ==
    \/ \E e \in ClientEmails : ReceiveRegister(e, "secret1")
    \/ \E e \in ClientEmails, p \in {"secret1", "abc"} : ReceiveLogin(e, p)
    \/ \E h \in ClientHeaders : ReceiveMe(h)
    \/ \E r \in Pending, s \in Salts : HashedRegister(r, s)
    \/ \E r \in Pending : CompleteRegister(r)
    \/ \E r \in Pending : CompleteLogin(r)
    \/ \E r \in Pending : ComparedLogin(r)

SpecUsers == Init /\ [][NextUsers]_vars

\* ------------------------------------------------- the auth gate over time

\* A token whose payload was altered after signing, and one signed with a
\* key that is not the server's.
Tampered(j) == [j EXCEPT !.payload.id = j.payload.id + 1]
Forged(j) == [payload |-> j.payload, sig |-> HS256(j.payload, "guess")]

\* Authorization header values: absent, well-formed, and malformed in the
\* scheme, the separator or the token.
GateHeaders ==
    {<<>>, <<Word("Bearer")>>, <<Word("Bearer"), SP>>,
     <<Word("Bearer"), SP, Word("garbage")>>, <<Word("Basic"), SP, Word("garbage")>>}
    \cup {Bearer(j) : j \in IssuedTokens}
    \cup {Bearer(Tampered(j)) : j \in IssuedTokens}
    \cup {Bearer(Forged(j)) : j \in IssuedTokens}
    \cup {<<Word("Bearer"), TAB, Jwt(j)>> : j \in IssuedTokens}
    \cup {<<Word("Bearer"), SP, SP, Jwt(j)>> : j \in IssuedTokens}
    \cup {<<Word("bearer"), SP, Jwt(j)>> : j \in IssuedTokens}
    \cup {<<Word("Bearer"), SP, Jwt(j), SP, Word("x")>> : j \in IssuedTokens}
    \cup {<<Jwt(j)>> : j \in IssuedTokens}

\* The three outcomes of the gate: no token, a good token, a bad token.
TokenHeaders ==
    {<<>>} \cup {Bearer(j) : j \in IssuedTokens} \cup {Bearer(Tampered(j)) : j \in IssuedTokens}

\* Clock advances, in milliseconds: half a second, and half a second short of
\* the tokens' validity.
TickSteps == {500, ExpiresInSec * 1000 - 500}

\* req.body.author of a create request: absent (<<>>) or a string.
AuthorInputs == {<<>>, <<"Herbert">>}

\* req.body.user_id of a create request: absent, or the id of another user.
BodyUserIds == {0, 2}

\* Path parameters "1", "x" and "1.5".
GateParams == {<<49>>, <<120>>, <<49, 46, 53>>}

\* One client that awaits each response before its next request, sending
\* any header and creating one note, while time passes.
NextGate ==
    \/ /\ reqs = EmptyBag
       /\ Cardinality(issued) < MaxTokens
       /\ \E e \in {EmailLowerA, EmailMalformed}, p \in PasswordInputs : ReceiveRegister(e, p)
    \/ /\ reqs = EmptyBag
       /\ Cardinality(issued) < MaxTokens
       /\ \E e \in {EmailUpperA, EmailLowerB, EmailMalformed}, p \in PasswordInputs :
              ReceiveLogin(e, p)
    \/ reqs = EmptyBag /\ \E h \in GateHeaders : ReceiveMe(h)
    \/ reqs = EmptyBag /\ \E h \in TokenHeaders : ReceiveList(h)
    \/ reqs = EmptyBag /\ \E h \in TokenHeaders, i \in GateParams : ReceiveGet(h, i)
    \/ /\ reqs = EmptyBag
       /\ noteSeq = 0
       /\ \E h \in TokenHeaders, t \in TitleInputs, a \in AuthorInputs, n \in NoteInputs,
             u \in BodyUserIds :
              ReceiveCreate(h, t, a, n, u)
    \/ reqs = EmptyBag /\ \E h \in TokenHeaders, i \in GateParams : ReceiveDelete(h, i)
    \/ \E r \in Pending, s \in OneSalt : HashedRegister(r, s)
    \/ \E r \in Pending : CompleteRegister(r)
    \/ \E r \in Pending : CompleteLogin(r)
    \/ \E r \in Pending : ComparedLogin(r)
    \/ \E r \in Pending : CompleteList(r)
    \/ \E r \in Pending : CompleteGet(r)
    \/ \E r \in Pending : CompleteCreate(r)
    \/ \E r \in Pending : CompleteDelete(r)
    \/ \E d \in TickSteps : Tick(d)

SpecGate == Init /\ [][NextGate]_vars

\* ------------------------------------------------- the client (App and api)

\* What the client's steps leave alone: the server and the clock.
ServerVars == <<secret, listening, users, notes, userSeq, noteSeq, now, ticks, reqs,
                last, issued, madeWith, registered, okDeletes>>

\* `/notes/${id}`: a number in decimal digits.
RECURSIVE Decimal(_)
Decimal(n) == IF n < 10 THEN <<48 + n>> ELSE Decimal(n \div 10) \o <<48 + (n % 10)>>

\* A call of the client that has not settled. at: its request is on its way
\* ("out") or awaited by a handler of the server ("server"), or fetch() has
\* resolved with the response res and the caller awaits res.json() ("body").
\* selectedId: the selection onDelete saw when it was called (its closure).
NoCall ==
    [op |-> "none", at |-> "out", header |-> <<>>, email |-> <<>>, password |-> "",
     id |-> 0, bookTitle |-> "", author |-> "", note |-> "", selectedId |-> 0,
     res |-> NoResponse]

\* authFetch up to fetch(): the Authorization header is set when getToken()
\* returns a token (held: the content of localStorage).
authFetch(c, held) ==
    [c EXCEPT !.header = IF held = <<>> THEN <<>> ELSE Bearer(held[1])]

\* The request of call c as a handler of the server holds it, apart from
\* req.user.
AsSent(c) ==
    [NoRequest EXCEPT
        !.op = c.op,
        !.sub = IF c.op \in {"register", "login"} THEN 0 ELSE SubOf(c.header),
        !.email = c.email,
        !.password = c.password,
        !.id = IF c.op \in {"get", "delete"} THEN Number(Decimal(c.id)) ELSE NoNumber,
        !.bookTitle = c.bookTitle,
        !.author = c.author,
        !.note = c.note]

\* The calls on their way, the calls awaited by the server, and the calls
\* whose response has arrived and whose body is awaited.
Outgoing == {c \in BagToSet(calls) : c.at = "out" /\ c.op # "ai"}
Awaited == {c \in BagToSet(calls) : c.at = "server"}
Fetched == {c \in BagToSet(calls) : c.at = "body"}
Calls(op) == BagCardinality([c \in {d \in BagToSet(calls) : d.op \in op} |-> calls[c]])

\* The effects React runs after a render with state v, when they last ran
\* with the dependencies u (userSet: setUser was given an object since): the
\* load-user effect on [token], the load-notes effect on [user], and the
\* selected-note effect on [selectedId, user], each with the values of the
\* render. start: the calls the effects make; ui: the state they set.
Effects(u, v, userSet) ==
    LET tokenChanged == v.token # u.token
        userChanged == userSet \/ v.user # u.user
        selectionChanged == userChanged \/ v.selectedId # u.selectedId
        loadUser == IF tokenChanged /\ v.token # <<>>
                    THEN {[NoCall EXCEPT !.op = "me"]} ELSE {}
        loadNotes == IF userChanged /\ v.user # <<>>
                     THEN {[NoCall EXCEPT !.op = "list"]} ELSE {}
        loadSelected == IF selectionChanged /\ v.user # <<>> /\ v.selectedId # 0
                        THEN {[NoCall EXCEPT !.op = "get", !.id = v.selectedId]} ELSE {}
        w == IF selectionChanged /\ v.user # <<>> /\ v.selectedId = 0
             THEN [v EXCEPT !.selected = <<>>] ELSE v
    IN  [ui |-> IF tokenChanged /\ v.token = <<>> THEN [w EXCEPT !.user = <<>>] ELSE w,
         start |-> loadUser \cup loadNotes \cup loadSelected]

\* res.ok
Ok(res) == res.status >= 200 /\ res.status <= 299

\* String(e.message || e) of new Error(data?.error || fallback): the server's
\* error text; the flattened zod error is an object.
Message(res) == IF res.kind = "error" THEN res.error ELSE "[object Object]"

\* What follows the await of res.json() of call c, whose response is res,
\* from state u and with held in localStorage: the state set,
\* the content of localStorage, whether setUser got a new object, and the
\* calls made next (refreshNotes).
Continue(c, res, u, held) ==
    LET stay == [ui |-> u, stored |-> held, userSet |-> FALSE, then |-> {}]
        refreshNotes == {[NoCall EXCEPT !.op = "list"]}
    IN  CASE c.op \in {"register", "login"} ->
                IF Ok(res)
                THEN [ui |-> [u EXCEPT !.token = res.token, !.user = res.user],
                      stored |-> res.token, userSet |-> TRUE, then |-> {}]
                ELSE [stay EXCEPT !.ui.authStatus = Message(res)]
          [] c.op = "me" ->
                IF Ok(res)
                THEN [stay EXCEPT !.ui.user = res.user, !.userSet = TRUE]
                ELSE [stay EXCEPT !.ui.token = <<>>, !.ui.user = <<>>,
                                  !.ui.authStatus = Message(res), !.stored = <<>>]
          [] c.op = "list" ->
                IF Ok(res)
                THEN [stay EXCEPT !.ui.notes = res.rows]
                ELSE [stay EXCEPT !.ui.status = Message(res)]
          [] c.op = "get" ->
                IF Ok(res)
                THEN [stay EXCEPT !.ui.selected = res.rows]
                ELSE [stay EXCEPT !.ui.status = Message(res)]
          [] c.op = "delete" ->
                IF Ok(res)
                THEN [stay EXCEPT !.ui.selectedId = IF c.selectedId = c.id THEN 0 ELSE @,
                                  !.then = refreshNotes]
                ELSE [stay EXCEPT !.ui.status = Message(res)]
          [] c.op = "create" ->
                IF Ok(res)
                THEN [stay EXCEPT !.ui.bookTitle = "", !.ui.author = "", !.ui.note = "",
                                  !.ui.status = "", !.ui.aiNote = "", !.ui.aiError = "",
                                  !.ui.aiLoading = FALSE, !.ui.saveChoice = "original",
                                  !.then = refreshNotes]
                ELSE [stay EXCEPT !.ui.status = Message(res)]

\* The server and the client are at rest: the latest response, if any, has
\* reached the client.
Heard == last = NoActivation

\* A step of the client that has taken the server's latest answer.
Hears ==
    /\ last' = NoActivation
    /\ UNCHANGED <<secret, listening, users, notes, userSeq, noteSeq, now, ticks, reqs,
                   issued, madeWith, registered, okDeletes>>

\* The effects of every render so far have run: the screen the user acts on.
Shown == deps = Deps(ui)

\* An event handler took the state from ui to v, with held in localStorage,
\* and called then: React renders before the event is over, the effects run
\* and make their calls.
Render(v, userSet, held, then, settled) ==
    LET e == Effects(deps, v, userSet)
    IN  /\ Shown
        /\ ui' = e.ui
        /\ deps' = Deps(e.ui)
        /\ stored' = held
        /\ cleared' = (cleared \/ (stored # <<>> /\ held = <<>>))
        /\ calls' = (calls (-) SetToBag(settled))
                        (+) SetToBag({authFetch(c, held) : c \in then})
                        (+) SetToBag({authFetch(c, held) : c \in e.start})

\* The continuation of an await took the state from ui to v, with held in
\* localStorage, and called then: the render and its effects come later.
SetState(v, userSet, held, then, settled) ==
    /\ ui' = v
    /\ deps' = [deps EXCEPT !.userSet = @ \/ userSet]
    /\ stored' = held
    /\ cleared' = (cleared \/ (stored # <<>> /\ held = <<>>))
    /\ calls' = (calls (-) SetToBag(settled)) (+) SetToBag({authFetch(c, held) : c \in then})

\* React has rendered the state a continuation set and runs the effects
\* whose dependencies changed: authFetch reads localStorage as it is now.
useEffect ==
    LET e == Effects(deps, ui, deps.userSet)
    IN  /\ ~Shown
        /\ ui' = e.ui
        /\ deps' = Deps(e.ui)
        /\ calls' = calls (+) SetToBag({authFetch(c, stored) : c \in e.start})
        /\ UNCHANGED <<ServerVars, stored, cleared>>

\* String.prototype.trim on a string of which the model keeps the text. The
\* characters it strips are the WhiteSpace and LineTerminator of the
\* language; those a string of this module can hold are the space, the tab,
\* the line feed, the form feed, the carriage return, the vertical tab
\* (U+000B), the no-break space (U+00A0), the ogham space mark (U+1680) and
\* the byte order mark (U+FEFF).
trimText(s) ==
    LET blanks == {" ", "\t", "\n", "\f", "\r", "", " ", " ", "﻿"}
        kept == {i \in 1..Len(s) : SubSeq(s, i, i) \notin blanks}
    IN  IF kept = {} THEN ""
        ELSE SubSeq(s, CHOOSE i \in kept : \A j \in kept : i <= j,
                       CHOOSE i \in kept : \A j \in kept : j <= i)

\* canAuthSubmit
canAuthSubmit(authMode, authEmail, authPassword) ==
    /\ trim(authEmail) # <<>>
    /\ Len(trimText(authPassword)) >= (IF authMode = "register" THEN 6 ELSE 1)

\* onAuthSubmit up to its await: register or login is called.
onAuthSubmit(authMode, authEmail, authPassword) ==
    /\ ui.user = <<>>
    /\ canAuthSubmit(authMode, authEmail, authPassword)
    /\ BagCardinality(calls) < MaxInFlight
    /\ Cardinality(issued) + Calls({"register", "login"}) < MaxTokens
    /\ Render([ui EXCEPT !.authStatus = ""], FALSE, stored,
              {[NoCall EXCEPT !.op = authMode, !.email = authEmail,
                              !.password = authPassword]}, {})
    /\ UNCHANGED ServerVars

\* onLogout: the token and the whole state are reset; nothing is sent.
onLogout ==
    /\ ui.user # <<>>
    /\ Render(AppState(<<>>), FALSE, <<>>, {}, {})
    /\ UNCHANGED ServerVars

\* A click on a note of the list: setSelectedId(n.id).
setSelectedId(id) ==
    /\ ui.user # <<>>
    /\ \E i \in DOMAIN ui.notes : ui.notes[i].id = id
    /\ BagCardinality(calls) < MaxInFlight
    /\ Render([ui EXCEPT !.selectedId = id], FALSE, stored, {}, {})
    /\ UNCHANGED ServerVars

\* onDelete(id) up to its await: deleteNote is called.
onDelete(id) ==
    /\ ui.user # <<>>
    /\ \E i \in DOMAIN ui.notes : ui.notes[i].id = id
    /\ BagCardinality(calls) < MaxInFlight
    /\ Render([ui EXCEPT !.status = ""], FALSE, stored,
              {[NoCall EXCEPT !.op = "delete", !.id = id, !.selectedId = ui.selectedId]}, {})
    /\ UNCHANGED ServerVars

\* The inputs of the note form: onChange of the title, the author and the
\* note text.
setBookTitle(value) ==
    /\ ui.user # <<>>
    /\ Shown
    /\ ui' = [ui EXCEPT !.bookTitle = value]
    /\ UNCHANGED <<ServerVars, stored, cleared, deps, calls>>

setAuthor(value) ==
    /\ ui.user # <<>>
    /\ Shown
    /\ ui' = [ui EXCEPT !.author = value]
    /\ UNCHANGED <<ServerVars, stored, cleared, deps, calls>>

setNote(value) ==
    /\ ui.user # <<>>
    /\ Shown
    /\ ui' = [ui EXCEPT !.note = value]
    /\ UNCHANGED <<ServerVars, stored, cleared, deps, calls>>

\* onAiGenerate up to its return or its await: a blank note is refused,
\* otherwise aiEnhanceNote is called.
onAiGenerate ==
    IF trimText(ui.note) = ""
    THEN /\ ui' = [ui EXCEPT !.status = "",
                             !.aiError = "Write something in the note box first."]
         /\ UNCHANGED <<ServerVars, stored, cleared, deps, calls>>
    ELSE /\ BagCardinality(calls) < MaxInFlight
         /\ ui' = [ui EXCEPT !.aiError = "", !.status = "", !.aiLoading = TRUE]
         /\ calls' = calls (+) SetToBag({[NoCall EXCEPT !.op = "ai", !.note = ui.note]})
         /\ UNCHANGED <<ServerVars, stored, cleared, deps>>

\* The AI button: shown with the notes screen, disabled while aiLoading or
\* with a blank note.
AiButton ==
    /\ ui.user # <<>>
    /\ Shown
    /\ ~(ui.aiLoading \/ trimText(ui.note) = "")
    /\ onAiGenerate

\* aiEnhanceNote settles with the summary of the webhook or throws, and
\* onAiGenerate goes on.
AiSettles(c, out) ==
    /\ c \in BagToSet(calls)
    /\ c.op = "ai"
    /\ ui' = IF out.ok
             THEN [ui EXCEPT !.aiNote = out.text, !.saveChoice = "ai", !.aiLoading = FALSE]
             ELSE [ui EXCEPT !.aiError = out.text, !.aiLoading = FALSE]
    /\ calls' = calls (-) SetToBag({c})
    /\ UNCHANGED <<ServerVars, stored, cleared, deps>>

\* The radio buttons shown with an AI note: setSaveChoice.
setSaveChoice(choice) ==
    /\ ui.user # <<>>
    /\ Shown
    /\ ui.aiNote # ""
    /\ ui' = [ui EXCEPT !.saveChoice = choice]
    /\ UNCHANGED <<ServerVars, stored, cleared, deps, calls>>

\* canSaveChosen
canSaveChosen ==
    /\ trimText(ui.bookTitle) # ""
    /\ trimText(ui.author) # ""
    /\ IF ui.saveChoice = "ai" THEN Len(trimText(ui.aiNote)) > 0
       ELSE Len(trimText(ui.note)) > 0

\* onSaveChosen up to its return or its await: a blank field is refused,
\* otherwise createNote is called with the chosen text.
onSaveChosen ==
    LET finalNote == IF ui.saveChoice = "ai" THEN ui.aiNote ELSE ui.note
    IN  IF trimText(ui.bookTitle) = "" \/ trimText(ui.author) = "" \/ trimText(finalNote) = ""
        THEN /\ ui' = [ui EXCEPT !.aiError = "",
                                 !.status = "Please fill Book title, Author, and the chosen note content."]
             /\ UNCHANGED <<ServerVars, stored, cleared, deps, calls>>
        ELSE /\ BagCardinality(calls) < MaxInFlight
             /\ noteSeq + Calls({"create"}) < MaxNotes
             /\ Render([ui EXCEPT !.status = "", !.aiError = ""], FALSE, stored,
                       {[NoCall EXCEPT !.op = "create", !.bookTitle = ui.bookTitle,
                                       !.author = ui.author, !.note = finalNote]},
                       {})
             /\ UNCHANGED ServerVars

\* The save button (and the form's submission): shown with the notes
\* screen, disabled unless canSaveChosen.
SaveButton ==
    /\ ui.user # <<>>
    /\ Shown
    /\ canSaveChosen
    /\ onSaveChosen

\* The latest step of the server was on call c: it received c's request, or
\* it resumed the handler that awaited a query for it.
Served(c) ==
    /\ [last.req EXCEPT !.user = NoUser, !.hash = NoHash, !.row = NoRow] = AsSent(c)
    /\ IF last.phase = "receive"
       THEN c \in Outgoing /\ (c.op \in {"register", "login"} \/ last.header = c.header)
       ELSE c \in Awaited

\* The request of call c is with its handler, which has reached an await.
Taken(c) ==
    /\ Served(c)
    /\ last.res.status = 0
    /\ calls' = (calls (-) SetToBag({c})) (+) SetToBag({[c EXCEPT !.at = "server"]})
    /\ Hears
    /\ UNCHANGED <<stored, cleared, ui, deps>>

\* authFetch after its await: fetch() of call c resolves with the response
\* just sent, the token is removed from localStorage on a 401, and the
\* response is returned to the caller, which awaits res.json(). No cell of
\* the App is set.
Arrive(c) ==
    /\ Served(c)
    /\ last.res.status # 0
    /\ calls' = (calls (-) SetToBag({c}))
                    (+) SetToBag({[c EXCEPT !.at = "body", !.res = last.res]})
    /\ stored' = IF last.res.status = 401 THEN <<>> ELSE stored
    /\ cleared' = (cleared \/ (stored # <<>> /\ stored' = <<>>))
    /\ UNCHANGED <<ui, deps>>
    /\ Hears

\* The body of the response of call c is read: the api function returns the
\* data or throws, and the caller goes on after its await.
Settle(c) ==
    /\ c \in Fetched
    /\ LET k == Continue(c, c.res, ui, stored)
       IN  SetState(k.ui, k.userSet, k.stored, k.then, {c})
    /\ UNCHANGED ServerVars

\* What the user types and what the webhook answers: the account is
\* registered first and logged in to afterwards.
AuthModes == IF users = {} THEN {"register"} ELSE {"login"}
NotesTyped == {"desert planet", " "}
AiOutcomes == {[ok |-> TRUE, text |-> "sand and spice"],
               [ok |-> FALSE, text |-> "AI webhook failed (500): "]}

\* One browser and the server, with the clock at rest: the user registers,
\* writes notes, and opens and deletes them while requests are under way.
\* fetch() resolves in the step after the one that sent the response; the
\* caller goes on when the body has been read, any number of steps later.
\* The effects of the render that follows a continuation run later still.
\* The form is filled from top to bottom.
NextPreview ==
    \/ Heard /\ users = {} /\ onAuthSubmit("register", EmailLowerA, "secret1")
    \/ Heard /\ \E id \in 1..MaxNotes : setSelectedId(id)
    \/ Heard /\ \E id \in 1..MaxNotes : onDelete(id)
    \/ Heard /\ ui.bookTitle = "" /\ setBookTitle("Dune")
    \/ Heard /\ ui.bookTitle # "" /\ ui.author = "" /\ setAuthor("Herbert")
    \/ Heard /\ ui.author # "" /\ ui.note = "" /\ \E n \in NotesTyped : setNote(n)
    \/ Heard /\ SaveButton
    \/ \E c \in BagToSet(calls) : Taken(c)
    \/ \E c \in BagToSet(calls) : Arrive(c)
    \/ Heard /\ \E c \in BagToSet(calls) : Settle(c)
    \/ Heard /\ useEffect
    \/ Heard /\ \E c \in Outgoing : c.op = "register" /\ ReceiveRegister(c.email, c.password)
    \/ Heard /\ \E c \in Outgoing : c.op = "me" /\ ReceiveMe(c.header)
    \/ Heard /\ \E c \in Outgoing : c.op = "list" /\ ReceiveList(c.header)
    \/ Heard /\ \E c \in Outgoing : c.op = "get" /\ ReceiveGet(c.header, Decimal(c.id))
    \/ Heard /\ \E c \in Outgoing :
                   c.op = "create"
                   /\ ReceiveCreate(c.header, c.bookTitle, <<c.author>>, c.note, 0)
    \/ Heard /\ \E c \in Outgoing : c.op = "delete" /\ ReceiveDelete(c.header, Decimal(c.id))
    \/ Heard /\ \E r \in Pending, s \in OneSalt : HashedRegister(r, s)
    \/ Heard /\ \E r \in Pending : CompleteRegister(r)
    \/ Heard /\ \E r \in Pending : CompleteList(r)
    \/ Heard /\ \E r \in Pending : CompleteGet(r)
    \/ Heard /\ \E r \in Pending : CompleteCreate(r)
    \/ Heard /\ \E r \in Pending : CompleteDelete(r)

SpecPreview == Init /\ [][NextPreview]_vars

\* One browser and the server, with the clock at rest: the user registers,
\* writes one note with or without a summary from the webhook, opens it,
\* logs out and logs in again while requests are under way.
\* The form is filled from top to bottom, the note while none is saved.
NextLogout ==
    \/ Heard /\ \E m \in AuthModes : onAuthSubmit(m, EmailLowerA, "secret1")
    \/ Heard /\ onLogout
    \/ Heard /\ \E id \in 1..MaxNotes : setSelectedId(id)
    \/ Heard /\ ui.bookTitle = "" /\ setBookTitle("Dune")
    \/ Heard /\ ui.bookTitle # "" /\ ui.author = "" /\ setAuthor("Herbert")
    \/ /\ Heard /\ ui.author # "" /\ ui.note = "" /\ Calls({"create"}) = 0 /\ noteSeq = 0
       /\ setNote("desert planet")
    \/ Heard /\ AiButton
    \/ Heard /\ \E c \in BagToSet(calls), out \in AiOutcomes : AiSettles(c, out)
    \/ Heard /\ \E choice \in {"original", "ai"} : setSaveChoice(choice)
    \/ Heard /\ noteSeq = 0 /\ Calls({"create"}) = 0 /\ SaveButton
    \/ \E c \in BagToSet(calls) : Taken(c)
    \/ \E c \in BagToSet(calls) : Arrive(c)
    \/ Heard /\ \E c \in BagToSet(calls) : Settle(c)
    \/ Heard /\ useEffect
    \/ Heard /\ \E c \in Outgoing : c.op = "register" /\ ReceiveRegister(c.email, c.password)
    \/ Heard /\ \E c \in Outgoing : c.op = "login" /\ ReceiveLogin(c.email, c.password)
    \/ Heard /\ \E c \in Outgoing : c.op = "me" /\ ReceiveMe(c.header)
    \/ Heard /\ \E c \in Outgoing : c.op = "list" /\ ReceiveList(c.header)
    \/ Heard /\ \E c \in Outgoing : c.op = "get" /\ ReceiveGet(c.header, Decimal(c.id))
    \/ Heard /\ \E c \in Outgoing :
                   c.op = "create"
                   /\ ReceiveCreate(c.header, c.bookTitle, <<c.author>>, c.note, 0)
    \/ Heard /\ \E r \in Pending, s \in OneSalt : HashedRegister(r, s)
    \/ Heard /\ \E r \in Pending : CompleteRegister(r)
    \/ Heard /\ \E r \in Pending : CompleteLogin(r)
    \/ Heard /\ \E r \in Pending : ComparedLogin(r)
    \/ Heard /\ \E r \in Pending : CompleteList(r)
    \/ Heard /\ \E r \in Pending : CompleteGet(r)
    \/ Heard /\ \E r \in Pending : CompleteCreate(r)

SpecLogout == Init /\ [][NextLogout]_vars

\* No body other than that of a 401 response is being read.
Read == \A c \in Fetched : c.res.status = 401

\* One browser and the server while time passes: the user registers, logs
\* out and in again, and writes, opens and deletes a note; the effects make
\* their calls, tokens expire, and requests sent with a token arrive after
\* the client has dropped it. The clock advances by a token's validity less
\* half a second. The server takes one request at a time and rests while the
\* client reads a body; the user logs in or out while the body of a 401
\* response is being read, and not while another body is, and starts a note
\* operation when no call is under way. The one note is written before the
\* clock has moved.
NextSessions ==
    \/ Heard /\ Read /\ \E m \in AuthModes : onAuthSubmit(m, EmailLowerA, "secret1")
    \/ Heard /\ Read /\ onLogout
    \/ Heard /\ calls = EmptyBag /\ \E id \in 1..MaxNotes : setSelectedId(id)
    \/ Heard /\ calls = EmptyBag /\ \E id \in 1..MaxNotes : onDelete(id)
    \/ /\ Heard /\ calls = EmptyBag /\ noteSeq = 0 /\ ticks = 0
       /\ ui.bookTitle = "" /\ setBookTitle("Dune")
    \/ /\ Heard /\ calls = EmptyBag
       /\ ui.bookTitle # "" /\ ui.author = "" /\ setAuthor("Herbert")
    \/ /\ Heard /\ calls = EmptyBag
       /\ ui.author # "" /\ ui.note = "" /\ setNote("desert planet")
    \/ Heard /\ calls = EmptyBag /\ SaveButton
    \/ \E c \in BagToSet(calls) : Taken(c)
    \/ \E c \in BagToSet(calls) : Arrive(c)
    \/ Heard /\ \E c \in BagToSet(calls) : Settle(c)
    \/ Heard /\ useEffect
    \/ /\ Heard /\ Fetched = {} /\ reqs = EmptyBag
       /\ \E c \in Outgoing : c.op = "register" /\ ReceiveRegister(c.email, c.password)
    \/ /\ Heard /\ Fetched = {} /\ reqs = EmptyBag
       /\ \E c \in Outgoing : c.op = "login" /\ ReceiveLogin(c.email, c.password)
    \/ /\ Heard /\ Fetched = {} /\ reqs = EmptyBag
       /\ \E c \in Outgoing : c.op = "me" /\ ReceiveMe(c.header)
    \/ /\ Heard /\ Fetched = {} /\ reqs = EmptyBag
       /\ \E c \in Outgoing : c.op = "list" /\ ReceiveList(c.header)
    \/ /\ Heard /\ Fetched = {} /\ reqs = EmptyBag
       /\ \E c \in Outgoing : c.op = "get" /\ ReceiveGet(c.header, Decimal(c.id))
    \/ /\ Heard /\ Fetched = {} /\ reqs = EmptyBag
       /\ \E c \in Outgoing :
              c.op = "create" /\ ReceiveCreate(c.header, c.bookTitle, <<c.author>>, c.note, 0)
    \/ /\ Heard /\ Fetched = {} /\ reqs = EmptyBag
       /\ \E c \in Outgoing : c.op = "delete" /\ ReceiveDelete(c.header, Decimal(c.id))
    \/ Heard /\ Fetched = {} /\ \E r \in Pending, s \in OneSalt : HashedRegister(r, s)
    \/ Heard /\ Fetched = {} /\ \E r \in Pending : CompleteRegister(r)
    \/ Heard /\ Fetched = {} /\ \E r \in Pending : CompleteLogin(r)
    \/ Heard /\ Fetched = {} /\ \E r \in Pending : ComparedLogin(r)
    \/ Heard /\ Fetched = {} /\ \E r \in Pending : CompleteList(r)
    \/ Heard /\ Fetched = {} /\ \E r \in Pending : CompleteGet(r)
    \/ Heard /\ Fetched = {} /\ \E r \in Pending : CompleteCreate(r)
    \/ Heard /\ Fetched = {} /\ \E r \in Pending : CompleteDelete(r)
    \/ Heard /\ Shown /\ Fetched = {} /\ reqs = EmptyBag /\ Tick(ExpiresInSec * 1000 - 500)

SpecSessions == Init /\ [][NextSessions]_vars

\* One browser left open while its token expires: the user registers,
\* writes one note, opens and deletes it; time passes while no call is
\* under way.
NextExpiry ==
    \/ Heard /\ users = {} /\ onAuthSubmit("register", EmailLowerA, "secret1")
    \/ Heard /\ \E id \in 1..MaxNotes : setSelectedId(id)
    \/ Heard /\ \E id \in 1..MaxNotes : onDelete(id)
    \/ Heard /\ ui.bookTitle = "" /\ setBookTitle("Dune")
    \/ Heard /\ ui.bookTitle # "" /\ ui.author = "" /\ setAuthor("Herbert")
    \/ Heard /\ ui.author # "" /\ ui.note = "" /\ \E n \in NotesTyped : setNote(n)
    \/ Heard /\ noteSeq = 0 /\ Calls({"create"}) = 0 /\ SaveButton
    \/ \E c \in BagToSet(calls) : Taken(c)
    \/ \E c \in BagToSet(calls) : Arrive(c)
    \/ Heard /\ \E c \in BagToSet(calls) : Settle(c)
    \/ Heard /\ useEffect
    \/ Heard /\ \E c \in Outgoing : c.op = "register" /\ ReceiveRegister(c.email, c.password)
    \/ Heard /\ \E c \in Outgoing : c.op = "me" /\ ReceiveMe(c.header)
    \/ Heard /\ \E c \in Outgoing : c.op = "list" /\ ReceiveList(c.header)
    \/ Heard /\ \E c \in Outgoing : c.op = "get" /\ ReceiveGet(c.header, Decimal(c.id))
    \/ Heard /\ \E c \in Outgoing :
                   c.op = "create"
                   /\ ReceiveCreate(c.header, c.bookTitle, <<c.author>>, c.note, 0)
    \/ Heard /\ \E c \in Outgoing : c.op = "delete" /\ ReceiveDelete(c.header, Decimal(c.id))
    \/ Heard /\ \E r \in Pending, s \in OneSalt : HashedRegister(r, s)
    \/ Heard /\ \E r \in Pending : CompleteRegister(r)
    \/ Heard /\ \E r \in Pending : CompleteList(r)
    \/ Heard /\ \E r \in Pending : CompleteGet(r)
    \/ Heard /\ \E r \in Pending : CompleteCreate(r)
    \/ Heard /\ \E r \in Pending : CompleteDelete(r)
    \/ Heard /\ Shown /\ calls = EmptyBag /\ \E d \in TickSteps : Tick(d)

SpecExpiry == Init /\ [][NextExpiry]_vars

\* --------------------------------------------------- a store that may fail

\* Path parameters "1" and "1.5".
\* Path ids: "1", "1.5", "+1" and "2147483648".
FaultParams == {<<49>>, <<49, 46, 53>>, <<43, 49>>, <<50, 49, 52, 55, 52, 56, 51, 54, 52, 56>>}

\* One user and their notes, with requests in flight together, over a store
\* whose connection may be lost while a query is awaited.
NextFaults ==
    \/ reqs = EmptyBag /\ ReceiveRegister(EmailLowerA, "secret1")
    \/ reqs = EmptyBag /\ ReceiveLogin(EmailUpperA, "secret1")
    \/ \E h \in ClientHeaders : ReceiveList(h)
    \/ \E h \in ClientHeaders, i \in FaultParams : ReceiveGet(h, i)
    \/ \E h \in ClientHeaders : ReceiveCreate(h, "Dune", <<"Herbert">>, "desert planet", 0)
    \/ \E h \in ClientHeaders, i \in FaultParams : ReceiveDelete(h, i)
    \/ \E r \in Pending, s \in OneSalt : HashedRegister(r, s)
    \/ \E r \in Pending : CompleteRegister(r)
    \/ \E r \in Pending : CompleteLogin(r)
    \/ \E r \in Pending : ComparedLogin(r)
    \/ \E r \in Pending : CompleteList(r)
    \/ \E r \in Pending : CompleteGet(r)
    \/ \E r \in Pending : CompleteCreate(r)
    \/ \E r \in Pending : CompleteDelete(r)
    \/ \E r \in Pending : QueryFails(r, ConnectionRefused)

SpecFaults == Init /\ [][NextFaults]_vars

\* -------------------------------------------------------------- properties

\* The handler resumed in the latest step and answered an op request.
Resumed(op) == last.phase = "resume" /\ last.req.op = op
\* This step is the resumption of the pending op request r.
Resumes(r, op) == r \in Pending /\ r.op = op /\ last'.phase = "resume" /\ last'.req = r

NotFound == ErrorResponse(404, "Not found")

\* The note with this id was created with a token of this id claim.
MadeBy(id, sub) == id \in DOMAIN madeWith /\ madeWith[id] = sub
MadeByOther(id, sub) == id \in DOMAIN madeWith /\ madeWith[id] # sub

\* C1: every note in the response to GET /api/notes was created with a token
\* of the user whose token the list request carries, never with another user's.
C1_ListHoldsOnlyOwnNotes ==
    Resumed("list") =>
        \A i \in DOMAIN last.res.rows : MadeBy(last.res.rows[i].id, last.req.sub)

\* A list answered with at least one note while another user's note is stored.
C1_Witness ==
    /\ Resumed("list")
    /\ Len(last.res.rows) >= 1
    /\ \E n \in notes : MadeByOther(n.id, last.req.sub)

\* C2: GET /api/notes/:id answers an id stored under another owner, and an id
\* that is not stored at all, with the one response 404 {error: "Not found"}.
C2_OtherOwnerLooksAbsent ==
    Resumed("get") /\ last.req.id.int32 =>
        LET id == last.req.id.val
            underOther == \E n \in notes : n.id = id /\ MadeByOther(id, last.req.sub)
            absent == \A n \in notes : n.id # id
        IN  (underOther \/ absent) => last.res = NotFound

\* A get answered 404 for a note that is stored under another owner.
C2_Witness ==
    /\ Resumed("get")
    /\ last.res = NotFound
    /\ \E n \in notes : n.id = last.req.id.val /\ MadeByOther(n.id, last.req.sub)

\* C3: a DELETE by a user for a note of another user answers 404 "Not found"
\* and leaves the notes table as it was; the owner's get and list still
\* select the note.
C3_DeleteOfOthersNoteChangesNothing ==
    [][\A r \in Pending :
           Resumes(r, "delete") /\ r.id.int32 =>
               \A n \in notes :
                   n.id = r.id.val /\ MadeByOther(n.id, r.sub) =>
                       /\ last'.res = NotFound
                       /\ notes' = notes
                       /\ GetWhere(notes', n.id, n.user_id) = {n}
                       /\ n \in ListWhere(notes', n.user_id)]_vars

\* A delete answered 404 while the note is stored under another owner.
C3_Witness ==
    /\ Resumed("delete")
    /\ last.res = NotFound
    /\ \E n \in notes : n.id = last.req.id.val /\ MadeByOther(n.id, last.req.sub)

\* C4: the owner's DELETE of a stored note answers {ok: true} and removes
\* exactly that row; the owner's DELETE of a note deleted before answers 404.
C4_SecondDeleteIsNotFound ==
    [][\A r \in Pending :
           Resumes(r, "delete") /\ r.id.int32 /\ MadeBy(r.id.val, r.sub) =>
               IF \E n \in notes : n.id = r.id.val
               THEN /\ last'.res = OkResponse
                    /\ notes' = {n \in notes : n.id # r.id.val}
               ELSE /\ last'.res = NotFound
                    /\ notes' = notes]_vars

\* The owner's delete answered 404 after an earlier one answered {ok: true}.
C4_Witness ==
    /\ Resumed("delete")
    /\ last.res = NotFound
    /\ MadeBy(last.req.id.val, last.req.sub)
    /\ okDeletes[last.req.id.val] = 1

\* C5: {ok: true} is answered at most once per note, and once an owner's
\* DELETE of a note has been answered (with {ok: true} or 404) exactly one
\* DELETE of that note has been answered {ok: true}.
C5_OneSuccessPerNote ==
    /\ \A id \in DOMAIN okDeletes : okDeletes[id] <= 1
    /\ Resumed("delete") /\ last.req.id.int32 /\ MadeBy(last.req.id.val, last.req.sub) =>
           /\ last.res \in {OkResponse, NotFound}
           /\ okDeletes[last.req.id.val] = 1

\* Two DELETEs of one note by its owner in flight together: one has just been
\* answered {ok: true}, the other is still pending.
C5_Witness ==
    /\ Resumed("delete")
    /\ last.res = OkResponse
    /\ \E r \in Pending :
           r.op = "delete" /\ r.id = last.req.id /\ r.sub = last.req.sub /\ reqs[r] >= 1

\* Registrations accepted so far whose email equals this one ignoring case.
RegisteredAs(email) == {g \in registered : toLowerCase(g.email) = toLowerCase(email)}

UniqueEmails ==
    \A u1, u2 \in users : toLowerCase(u1.email) = toLowerCase(u2.email) => u1 = u2

EmailTaken == ErrorResponse(409, "Email already registered")

\* C6: the users table never holds two rows whose emails are equal ignoring
\* case, and a registration whose email is, ignoring case, that of a stored
\* row answers 409 "Email already registered", adds no row and signs no token.
C6_OneRowPerEmail ==
    /\ []UniqueEmails
    /\ [][\A r \in Pending :
              /\ Resumes(r, "register")
              /\ \E u \in users : toLowerCase(u.email) = toLowerCase(r.email)
              => /\ last'.res = EmailTaken
                 /\ users' = users
                 /\ issued' = issued]_vars

\* A registration answered 409 for an email that differs from the registered
\* one in letter case only.
C6_Witness ==
    /\ Resumed("register")
    /\ last.res = EmailTaken
    /\ \E g \in RegisteredAs(last.req.email) : g.email # last.req.email

StoredEmail(id) == (CHOOSE u \in users : u.id = id).email

\* C7: a login with a registered user's email in any letter case and that
\* user's password answers a token with which requireAuth, given
\* "Bearer <token>", binds req.user to that user's id and stored email.
C7_LoginTokenResolvesToUser ==
    Resumed("login") =>
        \A g \in RegisteredAs(last.req.email) :
            g.password = last.req.password =>
                /\ last.res.kind = "auth"
                /\ requireAuth(Bearer(last.res.token[1]), secret, now).next
                /\ requireAuth(Bearer(last.res.token[1]), secret, now).user
                       = [id |-> g.id, email |-> StoredEmail(g.id)]

\* A login that succeeded with the email in another letter case than registered.
C7_Witness ==
    /\ Resumed("login")
    /\ last.res.kind = "auth"
    /\ \E g \in RegisteredAs(last.req.email) : g.email # last.req.email

InvalidLogin == ErrorResponse(401, "Invalid email or password")

\* C8: a well-formed login with a registered email and a wrong password, and
\* one with an email that is not registered, get the one response
\* 401 {error: "Invalid email or password"}, without a token.
C8_WrongPasswordLooksUnregistered ==
    Resumed("login") =>
        /\ RegisteredAs(last.req.email) = {} => last.res = InvalidLogin
        /\ (\E g \in RegisteredAs(last.req.email) : g.password # last.req.password)
               => last.res = InvalidLogin

\* A login with a registered email and a wrong password, answered 401.
C8_Witness ==
    /\ Resumed("login")
    /\ last.res = InvalidLogin
    /\ \E g \in RegisteredAs(last.req.email) : g.password # last.req.password

InvalidToken == ErrorResponse(401, "Invalid or expired token")
MissingToken == ErrorResponse(401, "Missing auth token")

\* requireAuth ran in the latest step, given the header last.header.
GateRan == last.phase = "receive" /\ last.req.op \in {"me", "list", "get", "create", "delete"}

\* A token signed at time at (ms) is within its validity at time ms when the
\* clock in whole seconds is below the second of signing plus seven days.
WithinValidity(at, ms) == ClockTimestamp(ms) < ClockTimestamp(at) + ExpiresInSec

\* C9 (amended): requireAuth accepts a token signed at time T exactly while
\* the clock in whole seconds is less than floor(T / 1000) + 604800: up to
\* T + 7 days - 1 s always, at T + 7 days and after never.
C9_AcceptedWithinValidity ==
    \A i \in issued :
        /\ requireAuth(Bearer(i.jwt), secret, now).next <=> WithinValidity(i.at, now)
        /\ GateRan /\ last.header = Bearer(i.jwt) => (last.next <=> WithinValidity(i.at, now))

\* C9 as claimed: a token signed at time T is accepted at every time up to
\* T + 7 days and rejected at every time after.
C9_AcceptedUpToSevenDays ==
    \A i \in issued :
        requireAuth(Bearer(i.jwt), secret, now).next <=> now <= i.at + ExpiresInSec * 1000

\* A request made exactly seven days after its token was signed, rejected.
C9_Witness ==
    /\ GateRan
    /\ last.res = InvalidToken
    /\ \E i \in issued : last.header = Bearer(i.jwt) /\ now = i.at + ExpiresInSec * 1000

\* String.prototype.split(/\s+/): the fields between runs of blanks.
IsBlank(x) == x = SP \/ x = TAB
RECURSIVE WhitespaceFields(_)
WhitespaceFields(s) ==
    IF \A i \in 1..Len(s) : ~IsBlank(s[i])
    THEN <<s>>
    ELSE LET p == CHOOSE i \in 1..Len(s) : IsBlank(s[i]) /\ \A j \in 1..(i - 1) : ~IsBlank(s[j])
             rest == {i \in (p + 1)..Len(s) : ~IsBlank(s[i])}
         IN  IF rest = {}
             THEN <<SubSeq(s, 1, p - 1), <<>>>>
             ELSE LET q == CHOOSE i \in rest : \A j \in rest : i <= j
                  IN  <<SubSeq(s, 1, p - 1)>> \o WhitespaceFields(SubSeq(s, q, Len(s)))

\* Scheme "Bearer" and a non-empty token, in the whitespace-split form.
BearerByWhitespace(h) ==
    LET f == WhitespaceFields(h)
    IN  f[1] = <<Word("Bearer")>> /\ Len(f) >= 2 /\ Len(f[2]) >= 1

\* The word Bearer, one space, and a character that is not a space.
BearerBySingleSpace(h) == Len(h) >= 3 /\ h[1] = Word("Bearer") /\ h[2] = SP /\ h[3] # SP

\* C10 (amended): requireAuth splits the header on the space character. A
\* header that is not "Bearer", one space and a token starting right after it
\* is answered 401 "Missing auth token" with neither jwt.verify nor next()
\* called; every other header has its second field passed to jwt.verify.
C10_MissingTokenUnlessBearerSpaceToken ==
    GateRan =>
        IF BearerBySingleSpace(last.header)
        THEN last.verified /\ last.res # MissingToken
        ELSE last.res = MissingToken /\ ~last.verified /\ ~last.next

\* C10 as claimed: the same with the header split on whitespace.
C10_MissingTokenUnlessBearerWhitespaceToken ==
    GateRan =>
        IF BearerByWhitespace(last.header)
        THEN last.verified /\ last.res # MissingToken
        ELSE last.res = MissingToken /\ ~last.verified /\ ~last.next

\* A header with a tab between "Bearer" and a token, answered "Missing auth token".
C10_Witness ==
    /\ GateRan
    /\ last.res = MissingToken
    /\ ~last.verified
    /\ \E j \in IssuedTokens : last.header = <<Word("Bearer"), TAB, Jwt(j)>>

\* The second space-separated field of the header: what jwt.verify is given.
TokenField(h) == IF BearerBySingleSpace(h) THEN split(h, SP)[2] ELSE <<>>
\* The field is a token whose signature is not the server's for its payload.
SignatureMismatch(h) ==
    LET f == TokenField(h)
    IN  Len(f) = 1 /\ f[1].t = "jwt" /\ f[1].jwt.sig # HS256(f[1].jwt.payload, secret)
\* The field is a token the server signed, presented in or after the second
\* of its expiry.
PastExpiry(h) ==
    LET f == TokenField(h)
    IN  /\ Len(f) = 1 /\ f[1].t = "jwt"
        /\ f[1].jwt.sig = HS256(f[1].jwt.payload, secret)
        /\ now \div 1000 >= f[1].jwt.payload.exp

\* C11: a token whose signature does not match and a token past its expiry
\* get the one response 401 "Invalid or expired token" from requireAuth;
\* next is not called and req.user is not set.
C11_VerificationFailuresLookAlike ==
    GateRan /\ (SignatureMismatch(last.header) \/ PastExpiry(last.header)) =>
        /\ last.res = InvalidToken
        /\ ~last.next
        /\ last.req.user = NoUser

\* A token the server signed, rejected after its expiry with the response a
\* tampered token gets.
C11_Witness ==
    /\ GateRan
    /\ PastExpiry(last.header)
    /\ last.res = requireAuth(Bearer(Tampered(TokenField(last.header)[1].jwt)), secret, now).res
    /\ last.res = InvalidToken

ProtectedOps == {"me", "list", "get", "create", "delete"}

\* The header is "Bearer", one space and a token the server signed that is
\* not yet in the second of its expiry.
TokenVerifies(h) ==
    LET f == TokenField(h)
    IN  /\ Len(f) = 1 /\ f[1].t = "jwt"
        /\ f[1].jwt.sig = HS256(f[1].jwt.payload, secret)
        /\ now \div 1000 < f[1].jwt.payload.exp

\* Every protected request whose query is awaited carries the identity of a
\* token that was verified when it arrived.
PendingWereVerified ==
    \A r \in Pending : r.op \in ProtectedOps => r.user # NoUser /\ r.user.id = r.sub

\* C12: whoami, list, get, create and delete pass through requireAuth first.
\* The handler runs (answers, or sends a query) only for a request whose
\* token was verified; a request requireAuth rejects gets the one response
\* 401, sends no query and leaves the users and notes tables unchanged.
C12_ProtectedOpsPassTheGate ==
    /\ []PendingWereVerified
    /\ [][last'.phase = "receive" /\ last'.req.op \in ProtectedOps =>
              /\ users' = users
              /\ notes' = notes
              /\ IF TokenVerifies(last'.header)
                 THEN last'.verified /\ last'.next /\ last'.res.status # 401
                 ELSE /\ last'.res.status = 401
                      /\ reqs' = reqs
                      /\ last'.req.user = NoUser]_vars

\* A DELETE of a stored note, rejected by requireAuth.
C12_Witness ==
    /\ GateRan
    /\ last.req.op = "delete"
    /\ last.res.status = 401
    /\ \E n \in notes : n.id = last.req.id.val

\* The ids of the notes created with a token of this id claim and not deleted.
KeptBy(sub) == {id \in DOMAIN madeWith : madeWith[id] = sub /\ okDeletes[id] = 0}

\* C13: GET /api/notes answers every note its owner created and has not
\* deleted, each once, in strictly descending order of id.
C13_ListIsOwnNotesNewestFirst ==
    Resumed("list") =>
        LET rows == last.res.rows
        IN  /\ {rows[i].id : i \in DOMAIN rows} = KeptBy(last.req.sub)
            /\ \A i, j \in DOMAIN rows : i < j => rows[i].id > rows[j].id

\* A list answered with two notes, the newer one first.
C13_Witness ==
    /\ Resumed("list")
    /\ Len(last.res.rows) >= 2
    /\ last.res.rows[1].id > last.res.rows[2].id

\* C14: no entry of the response to GET /api/notes has the note's body text
\* (the note column); only GET /api/notes/:id answers it.
C14_ListOmitsBody ==
    Resumed("list") =>
        \A i \in DOMAIN last.res.rows : "note" \notin DOMAIN last.res.rows[i]

\* C15: a valid create request with a verified token inserts exactly one
\* note, owned by the identity requireAuth bound (whatever user_id the body
\* names), and answers the inserted row: the generated id, the creation
\* time and the title, author and body submitted. A get of that id by the
\* same owner selects that row and answers the same.
C15_CreateInsertsOwnNote ==
    [][\A r \in Pending :
           Resumes(r, "create") =>
               \E n \in notes' :
                   /\ notes' = notes \cup {n}
                   /\ \A m \in notes : m.id # n.id
                   /\ n.id \notin DOMAIN madeWith
                   /\ n.user_id = r.sub
                   /\ n.created_at = now
                   /\ last'.res = RowResponse([id |-> n.id, bookTitle |-> r.bookTitle,
                                                author |-> r.author, note |-> r.note,
                                                createdAt |-> n.created_at])
                   /\ GetWhere(notes', n.id, r.sub) = {n}
                   /\ RowResponse(NoteColumns(n)) = last'.res]_vars

\* A create answered with the row, for a body that named another user's id
\* and no author.
C15_Witness ==
    /\ Resumed("create")
    /\ last.res.kind = "row"
    /\ last.req.bodyUserId # 0
    /\ last.req.author = ""
    /\ \E n \in notes : n.id = last.res.rows[1].id /\ n.user_id = last.req.sub

\* The handler of the latest step ran: the route is unprotected, or
\* requireAuth called next.
HandlerRan ==
    /\ last.phase = "receive"
    /\ last.req.op \in {"register", "login"} \/ last.next

\* The request's input is malformed or missing: an email that is none, a
\* password that is too short, an empty title or body, a path id that is
\* not an integer literal.
MalformedInput(r) ==
    \/ r.op = "register" /\ (~IsEmail(r.email) \/ Len(r.password) < MinRegisterPassword)
    \/ r.op = "login" /\ (~IsEmail(r.email) \/ Len(r.password) < MinLoginPassword)
    \/ r.op = "create" /\ (r.bookTitle = "" \/ r.note = "")
    \/ r.op \in {"get", "delete"} /\ ~r.id.integer

\* C16: a handler given malformed or missing input answers 400 at once: no
\* storage query is sent for the request.
C16_MalformedInputIsAnswered400 ==
    HandlerRan /\ MalformedInput(last.req) =>
        /\ last.res.status = 400
        /\ \A r \in Pending : ~MalformedInput(r)

\* The fixed message of each route's 500 response.
FailureMessage ==
    [register |-> "Failed to register", login |-> "Failed to login",
     list |-> "Failed to load notes", get |-> "Failed to load note",
     create |-> "Failed to save note", delete |-> "Failed to delete note"]

\* C17: a handler whose storage query fails answers 409 "Email already
\* registered" for a duplicate email and otherwise 500 with the fixed
\* message of its route; the response never holds the engine's error text.
C17_StorageFailuresAreTranslated ==
    last.phase = "resume" /\ last.thrown # NoError =>
        /\ last.res = IF last.req.op = "register" /\ last.thrown = DuplicateKey
                      THEN EmailTaken
                      ELSE ErrorResponse(500, FailureMessage[last.req.op])
        /\ \A e \in EngineErrors : last.res.error # e.message

\* A create whose INSERT failed on a lost connection, answered 500.
C17_Witness ==
    /\ Resumed("create")
    /\ last.thrown = ConnectionRefused
    /\ last.res = ErrorResponse(500, "Failed to save note")
    /\ notes = {}

\* A token signed with the server's key, presented before the second of its
\* expiry: the token's signature and the time, and nothing else.
SignedAndUnexpired(j) ==
    j.sig = HS256(j.payload, secret) /\ now \div 1000 < j.payload.exp

\* C18: whether requireAuth accepts a token is decided by the token's
\* signature and the time relative to its expiry alone, whatever logins,
\* registrations and note operations the server has handled since and
\* whether or not the client has logged out or dropped the token on a 401.
C18_AcceptanceDependsOnTokenAndTime ==
    /\ \A i \in issued :
           /\ requireAuth(Bearer(i.jwt), secret, now).next <=> SignedAndUnexpired(i.jwt)
           /\ ~requireAuth(Bearer(Tampered(i.jwt)), secret, now).next
    /\ GateRan /\ BearerBySingleSpace(last.header) /\ TokenField(last.header)[1].t = "jwt" =>
           (last.next <=> SignedAndUnexpired(TokenField(last.header)[1].jwt))

\* A token accepted after the client removed it and after a later token
\* was signed for the same user.
C18_Witness ==
    /\ GateRan
    /\ last.next
    /\ cleared
    /\ \E i, k \in issued :
           /\ last.header = Bearer(i.jwt)
           /\ stored # <<i.jwt>>
           /\ k.jwt.payload.id = i.jwt.payload.id
           /\ k.jwt.payload.iat > i.jwt.payload.iat

\* Two pending notes requests whose tokens name different owners.
NoteOps == {"list", "get", "create", "delete"}
ByDifferentOwners ==
    {p \in Pending \X Pending :
        p[1].op \in NoteOps /\ p[2].op \in NoteOps /\ p[1].user.id # p[2].user.id}

\* The query of r1 and then the query of r2, from the present store: the two
\* responses and the store left.
InOrder(r1, r2) ==
    LET a == NoteQuery(r1, Store, now, NoError)
        b == NoteQuery(r2, [notes |-> a.notes, noteSeq |-> a.noteSeq], now, NoError)
    IN  [first |-> Answer(r1, a), second |-> Answer(r2, b), notes |-> b.notes]

\* Either order of the two queries answers each request alike and leaves
\* the same notes table.
OrderIndependent(r1, r2) ==
    /\ InOrder(r1, r2).first = InOrder(r2, r1).second
    /\ InOrder(r1, r2).second = InOrder(r2, r1).first
    /\ InOrder(r1, r2).notes = InOrder(r2, r1).notes

\* C19 (as stated): for any two note operations by two different owners,
\* either order of execution gives each request the same response and
\* leaves the same notes table.
C19_AnyTwoOwnersOpsCommute ==
    \A p \in ByDifferentOwners : OrderIndependent(p[1], p[2])

\* The ids two creates are given: the next two of the sequence, in the
\* order the inserts run.
IdsInInsertOrder(r1, r2) ==
    /\ InOrder(r1, r2).first.rows[1].id = noteSeq + 1
    /\ InOrder(r1, r2).second.rows[1].id = noteSeq + 2
    /\ {[n EXCEPT !.id = 0] : n \in InOrder(r1, r2).notes}
           = {[n EXCEPT !.id = 0] : n \in InOrder(r2, r1).notes}

\* C19 (amended): two note operations by different owners that are not both
\* creates are answered alike and leave the same notes table in either
\* order; two creates draw their ids from the one sequence in the order they
\* run, and leave the same rows apart from the ids.
C19_OwnersOpsCommuteButForIds ==
    \A p \in ByDifferentOwners :
        IF p[1].op = "create" /\ p[2].op = "create"
        THEN IdsInInsertOrder(p[1], p[2])
        ELSE OrderIndependent(p[1], p[2])

\* One owner's create and the other owner's delete of a note of their own
\* are both pending.
C19_Witness ==
    \E p \in ByDifferentOwners :
        /\ p[1].op = "create"
        /\ p[2].op = "delete"
        /\ DeleteWhere(notes, p[2].id.val, p[2].user.id) # {}

\* C20: a process started without a signing secret never listens: it serves
\* no request, and signs and verifies no token, however long it is left.
C20_NoSecretNoServer ==
    secret = "" =>
        /\ ~listening
        /\ reqs = EmptyBag
        /\ last = NoActivation
        /\ issued = {}
        /\ users = {}
        /\ notes = {}

\* Time has passed since a start without a signing secret.
C20_Witness == secret = "" /\ ~listening /\ ticks = MaxTicks

\* A call was answered 401 and its caller has not yet gone on: authFetch has
\* returned the response and its body is being read.
Awaits401 == \E c \in Fetched : c.res.status = 401

\* C21: while the App holds a user (the notes screen is shown) a token is in
\* localStorage, once the caller of every call answered 401 has gone on
\* after its await: whichever endpoint was answered 401, the caller that
\* goes on after authFetch removed the token sets user to null (the login
\* screen).
C21_UserImpliesStoredToken ==
    /\ [](ui.user # <<>> /\ ~Awaits401 => stored # <<>>)
    /\ [][\A c \in Fetched : c.res.status = 401 /\ Settle(c) => ui'.user = <<>>]_vars

\* C22: once no getNote call is under way (and no deleteNote call, whose
\* continuation resets the selection, and the effects of the latest render
\* have run), selected is null when selectedId is null, and is otherwise
\* the note whose id is selectedId.
C22_PreviewIsTheSelection ==
    Calls({"get", "delete"}) = 0 /\ Shown =>
        IF ui.selectedId = 0
        THEN ui.selected = <<>>
        ELSE ui.selected # <<>> /\ ui.selected[1].id = ui.selectedId

\* The App holds nothing of a user: no notes, no selection, no preview, no
\* AI note, and no summary awaited.
NoUserData(u) ==
    /\ u.notes = <<>>
    /\ u.selectedId = 0
    /\ u.selected = <<>>
    /\ u.aiNote = ""
    /\ ~u.aiLoading

\* C23: onLogout leaves the App without data of the user, and the App stays
\* without it for as long as no login succeeds (token stays empty), also
\* when calls made before the logout settle after it.
C23_LogoutLeavesNoUserData ==
    [][/\ onLogout => NoUserData(ui')
       /\ ui.token = <<>> /\ NoUserData(ui) /\ ui'.token = <<>> => NoUserData(ui')]_vars

====
